---- MODULE Spec2Model ----
(***************************************************************************)
(* Process model and stream/pipeline runtime of the browser terminal       *)
(* (class Program and its subclasses Term, TermError, Monitor, Printer,    *)
(* Caller, Shell and the built-in utilities).                              *)
(*                                                                         *)
(* Strings are sequences of lexemes: a lexeme is a word, a blank " ", a    *)
(* newline "\n", or one of the separators "|" and ";".  One key event      *)
(* carries one lexeme.  A handler (a DOM event listener, a promise         *)
(* callback, a timer callback) runs to completion; its effect is computed  *)
(* by operators that thread a world record W through the calls the code    *)
(* makes, in the order the code makes them.                                *)
(***************************************************************************)
EXTENDS Integers, Sequences, FiniteSets, TLC

\* ---------------------------------------------------------------- bounds
MaxProcs == 7 \* processes ever constructed (Term and TermError included)
MaxOut == 4 \* payloads appended to the terminal's output pane

\* ------------------------------------------------------------- constants
READY == "ready"
RUNNING == "running"
TERMINATED == "terminated"

NoProc == 0 \* null process reference
NaN == -1000 \* Number.NaN, outside the range of every parsed number
EmptyMap == [x \in {} |-> 0]

\* `let v = ...; body`: the value of v is computed, then Op applied to it
Bind(v, Op(_)) == CASE {v} # {} -> Op(v)

\* ----------------------------------------------------- strings of lexemes
WS == {" ", "\n"}

RECURSIVE Trim(_)
Trim(s) ==
    IF s = <<>> THEN s
    ELSE IF Head(s) \in WS THEN Trim(Tail(s))
    ELSE IF s[Len(s)] \in WS THEN Trim(SubSeq(s, 1, Len(s) - 1))
    ELSE s

\* String.prototype.split on a set of one-lexeme separators
RECURSIVE SplitOn(_, _)
SplitOn(s, seps) ==
    IF \A i \in 1..Len(s) : s[i] \notin seps THEN <<s>>
    ELSE Bind(CHOOSE i \in 1..Len(s) :
                      s[i] \in seps /\ \A j \in 1..(i - 1) : s[j] \notin seps, LAMBDA k :
            <<SubSeq(s, 1, k - 1)>> \o SplitOn(SubSeq(s, k + 1, Len(s)), seps))

\* String.prototype.split(/\s+/): runs of blanks separate the fields
RECURSIVE SplitWS(_)
SplitWS(s) ==
    IF \A i \in 1..Len(s) : s[i] \notin WS THEN <<s>>
    ELSE Bind(CHOOSE i \in 1..Len(s) :
                      s[i] \in WS /\ \A j \in 1..(i - 1) : s[j] \notin WS, LAMBDA k :
             Bind(CHOOSE i \in k..Len(s) :
                      /\ \A j \in k..i : s[j] \in WS
                      /\ (i = Len(s) \/ s[i + 1] \notin WS), LAMBDA m :
            <<SubSeq(s, 1, k - 1)>> \o SplitWS(SubSeq(s, m + 1, Len(s)))))

\* Array.prototype.join
RECURSIVE Join(_, _)
Join(ss, sep) ==
    IF ss = <<>> THEN <<>>
    ELSE IF Len(ss) = 1 THEN ss[1]
    ELSE ss[1] \o <<sep>> \o Join(Tail(ss), sep)

escapeHTML(str) ==
    [i \in 1..Len(str) |->
        CASE str[i] = "&" -> "&amp;"
          [] str[i] = "<" -> "&lt;"
          [] str[i] = ">" -> "&gt;"
          [] OTHER -> str[i]]

span(str, cls) == <<"<span>", cls>> \o str \o <<"</span>">>

\* Number.parseInt on a token (a string of lexemes); digits are lexemes
ParseInt(tok) ==
    IF Len(tok) = 0 THEN NaN
    ELSE CASE tok[1] = "0" -> 0
           [] tok[1] = "1" -> 1
           [] tok[1] = "2" -> 2
           [] tok[1] = "3" -> 3
           [] OTHER -> NaN

\* ---------------------------------------------------------- output values
TextOutput(s) == [type |-> "text", content |-> s, elems |-> <<>>]
RawOutput(s) == [type |-> "raw", content |-> s, elems |-> <<>>]
\* members of an ArrayOutput are kept by their str() and type
ArrayOutput(xs) == [type |-> "array", content |-> <<>>, elems |-> xs]
\* an ObjectOutput is kept by the String() of its value
ObjectOutput(v) == [type |-> "object", content |-> v, elems |-> <<>>]

OutStr(o) ==
    IF o.type = "array"
    THEN Join([i \in 1..Len(o.elems) |-> o.elems[i].content], "\n")
    ELSE o.content

\* Output.items, TextOutput.items, RawOutput.items and ArrayOutput.items
OutItemsMut(o) == <<o>>

OutItems(o) ==
    IF o.type = "array" THEN o.elems
    ELSE IF o.type = "object" THEN <<o>>
    ELSE Bind(SplitOn(o.content, {"\n"}), LAMBDA parts :
            [i \in 1..Len(parts) |->
                [type |-> o.type, content |-> parts[i], elems |-> <<>>]])

\* ------------------------------------------------------------------ state
VARIABLES
    procs, \* every Program object ever constructed, by identity 1..Len
    tty, \* the Term's line buffer, prompt element and output pane
    storage, \* localStorage: path -> content
    micro, \* promise reactions queued and not yet run (FIFO)
    timers, \* processes whose setTimeout handle is armed
    log \* calls made by the handler that ran last (observation only)

vars == <<procs, tty, storage, micro, timers, log>>

\* values of `undefined` where the code tests for it
Undef == <<"#undefined">>
NoRet == -1 \* onExecute returned no number
Unset == -2 \* a numeric field that holds undefined
NoFile == <<"#null">> \* localStorage.getItem(path) === null

Falsy(tok) == tok = Undef \/ tok = <<>>
Arg(args, i) == IF i <= Len(args) THEN args[i] ELSE Undef

\* Map.get / Map.set on a variables map
MapGet(m, k) == IF k \in DOMAIN m THEN m[k] ELSE Undef
MapSet(m, k, v) == [x \in (DOMAIN m) \cup {k} |-> IF x = k THEN v ELSE m[x]]

\* a number stored in a string-valued map or written as text
NumStr(n) == <<ToString(n)>>

PromptOk == <<"$ ">>
PromptErr == span(<<"$ ">>, "error")

Ev(ev, p, q, st, flag, code, x) ==
    [ev |-> ev, p |-> p, q |-> q, st |-> st, flag |-> flag, code |-> code,
     x |-> x]

Note(W, e) == [W EXCEPT !.log = Append(@, e)]

\* the world a handler starts from
World ==
    [procs |-> procs, tty |-> tty, storage |-> storage, micro |-> micro,
     timers |-> timers, log |-> <<>>, ret |-> NoRet, wret |-> FALSE,
     newp |-> NoProc, halt |-> ""]

\* ------------------------------------------------------------ constructors
\* Program.constructor; the subclass fields start at the values the
\* subclass constructors and onExecute hooks give them
\* `new Map(...)`: the identity of the Map object the new process holds
NewMapMut(W, parent) ==
    IF parent # NoProc THEN W.procs[parent].env ELSE Len(W.procs) + 1
NewMap(W, parent) == Len(W.procs) + 1

Program(W, parent, kind) ==
    [kind |-> kind,
     prompt |-> <<>>,
     exitInput |-> <<>>,
     inputEnabled |-> FALSE,
     echo |-> TRUE,
     password |-> FALSE,
     rawInput |-> FALSE,
     history |-> <<>>,
     historyIndex |-> 0,
     parent |-> parent,
     children |-> <<>>,
     job |-> <<Len(W.procs) + 1>>,
     variables |-> IF parent # NoProc THEN W.procs[parent].variables
                   ELSE EmptyMap,
     env |-> NewMap(W, parent),
     state |-> READY,
     tty |-> FALSE,
     inputEnded |-> FALSE,
     stdin |-> IF parent # NoProc THEN W.procs[parent].stdin ELSE NoProc,
     stdout |-> IF parent # NoProc THEN W.procs[parent].stdout ELSE NoProc,
     stderr |-> IF parent # NoProc THEN W.procs[parent].stderr ELSE NoProc,
     args |-> <<>>,
\* Monitor.callback / Caller.fn / Printer.content
     fn |-> "",
     content |-> <<>>,
\* Shell
     jobRunning |-> FALSE,
     jobs |-> <<>>,
     historyPromise |-> "undefined",
     loaded |-> FALSE,
     script |-> <<>>,
     exitCode |-> 0,
\* Tee (its `content` is the field above)
     file |-> <<>>,
     promise |-> "null",
\* Editor (`file` and `promise` are the fields above); the cursor fields
\* are undefined until the file is read
     buffer |-> <<>>,
     mode |-> "n",
     ending |-> FALSE,
     cursorLine |-> Unset,
     cursorColumn |-> Unset,
     virtualColumn |-> Unset,
\* Head / Tail / Grep
     counter |-> 0,
     items |-> <<>>,
     pattern |-> <<>>,
     matched |-> FALSE,
\* observation only: effective execute / exit, onEOF and onReturn calls,
\* whether an eof() / exit() call found the guard closed, exit's code
     gExec |-> 0,
     gExit |-> 0,
     gExitAgain |-> FALSE,
     gEOF |-> 0,
     gEofAgain |-> FALSE,
     gReturn |-> 0,
     gCode |-> NoRet,
\* observation only: the last job this shell took from its queue named a
\* command that does not exist, and no command has been written to it since
     gNotFound |-> FALSE,
\* observation only: the reaction to the read of the history file has run
     gHistLoaded |-> FALSE,
\* observation only, of a filter: the items of each payload its onWrite
\* received, and each payload it wrote to stdout (how many payloads it had
\* received by then, whether from onEOF, the items)
     gIn |-> <<>>,
     gOut |-> <<>>]

\* `new C(...)`: the object gets the next identity; W.newp names it
New(W, rec) ==
    IF W.halt # "" THEN W
    ELSE IF Len(W.procs) >= MaxProcs THEN [W EXCEPT !.halt = "overflow"]
    ELSE [Note(W, Ev("new", Len(W.procs) + 1, rec.parent, "",
                     rec.parent = NoProc
                        \/ rec.variables = W.procs[rec.parent].variables,
                     Cardinality({q \in 1..Len(W.procs) :
                                     W.procs[q].env = rec.env}),
                     <<>>))
             EXCEPT !.procs = Append(@, rec), !.newp = Len(W.procs) + 1]

\* Map.prototype.set on the variables of p; every process that holds the
\* same Map object sees the entry. The event counts the other processes whose
\* variables are different afterwards.
SharedSet(W, p, k, v) ==
    [W EXCEPT !.procs =
        [q \in 1..Len(W.procs) |->
            IF W.procs[q].env = W.procs[p].env
            THEN [W.procs[q] EXCEPT !.variables = MapSet(@, k, v)]
            ELSE W.procs[q]]]

VarSet(W, p, k, v) ==
    IF W.halt # "" THEN W
    ELSE Note(SharedSet(W, p, k, v),
              Ev("assign", p, W.procs[p].parent, "",
                 MapGet(W.procs[p].variables, k) # v,
                 Cardinality({q \in 1..Len(W.procs) :
                    /\ q # p
                    /\ SharedSet(W, p, k, v).procs[q].variables
                          # W.procs[q].variables}),
                 k))

\* Shell.setReturnCode
setReturnCode(W, s, code) ==
    IF W.halt # "" THEN W
    ELSE [VarSet(W, s, <<"?">>, NumStr(code)) EXCEPT
                   !.procs[s].prompt = IF code # 0 THEN PromptErr ELSE PromptOk,
                   !.procs[s].exitCode = code]

NewTermError(W, parent) ==
    New(W, [Program(W, parent, "TermError") EXCEPT
                !.inputEnabled = TRUE, !.tty = TRUE,
                !.stderr = Len(W.procs) + 1])

NewMonitor(W, parent, callback) ==
    New(W, [Program(W, parent, "Monitor") EXCEPT
                !.fn = callback, !.inputEnabled = TRUE])

NewPrinter(W, parent, content) ==
    New(W, [Program(W, parent, "Printer") EXCEPT !.content = content])

NewCaller(W, parent, fn) ==
    New(W, [Program(W, parent, "Caller") EXCEPT !.fn = fn])

NewShell(W, parent) ==
    Bind(New(W, [Program(W, parent, "Shell") EXCEPT
                          !.exitInput = <<"exit">>]), LAMBDA W1 :
       setReturnCode(W1, W1.newp, 0))

\* Editor.constructor
NewEditor(W, parent) ==
    New(W, [Program(W, parent, "Editor") EXCEPT !.rawInput = TRUE])

\* Interpreter.constructor
NewInterpreter(W, parent) ==
    New(W, [Program(W, parent, "Interpreter") EXCEPT
                !.prompt = <<"> ">>, !.inputEnabled = TRUE])

\* `new bin[cmd](this)` for the classes that define no constructor
NewBin(W, parent, kind) == New(W, Program(W, parent, kind))

\* ------------------------------------------------- Program: public methods
\* A method call: every call of a method or hook goes through Call, which
\* runs the body of method m on process p with the arguments a and b.
RECURSIVE Call(_, _, _, _, _)
RECURSIVE ExitChildren(_, _, _)
execute(W, p, a) == Call(W, "execute", p, a, 0)
eof(W, p) == Call(W, "eof", p, 0, 0)
interrupt(W, p) == Call(W, "interrupt", p, 0, 0)
exit(W, p, a) == Call(W, "exit", p, a, 0)
write(W, p, a) == Call(W, "write", p, a, 0)
onExecute(W, p) == Call(W, "onExecute", p, 0, 0)
onWrite(W, p, a) == Call(W, "onWrite", p, a, 0)
onEOF(W, p) == Call(W, "onEOF", p, 0, 0)
onInterrupt(W, p) == Call(W, "onInterrupt", p, 0, 0)
onReturn(W, p, a, b) == Call(W, "onReturn", p, a, b)
executeCommand(W, p, a) == Call(W, "executeCommand", p, a, 0)
nextJob(W, p) == Call(W, "nextJob", p, 0, 0)

\* Program.jobReturned
jobReturnedMut(W, p) ==
    \E i \in 1..Len(W.procs[p].job) :
        W.procs[W.procs[p].job[i]].state = TERMINATED

jobReturned(W, p) ==
    \A i \in 1..Len(W.procs[p].job) :
        W.procs[W.procs[p].job[i]].state = TERMINATED

\* observation only: the members of p's job that are not TERMINATED
Unreturned(W, p) ==
    Cardinality({i \in 1..Len(W.procs[p].job) :
                    W.procs[W.procs[p].job[i]].state # TERMINATED})

writeText(W, p, msg) == write(W, p, TextOutput(msg))
writeRaw(W, p, msg) == write(W, p, RawOutput(msg))

\* Set.add on a children set (insertion-ordered)
SetAdd(seq, e) ==
    IF \E i \in 1..Len(seq) : seq[i] = e THEN seq ELSE Append(seq, e)
\* Set.delete
SetDeleteMut(seq, e) == seq
SetDelete(seq, e) == SelectSeq(seq, LAMBDA c : c # e)

\* In exit(), `input` is declared inside the jobReturned block; the later
\* `input.state` resolves to the page's element with id "input" (the one the
\* Term constructor fetches), which has no `state` property.
DomInputState == "undefined"

\* the guards of execute, eof, exit and write
canExecute(W, p) == W.procs[p].state = READY
canEofMut(W, p) == W.procs[p].state = RUNNING
canEof(W, p) == W.procs[p].state = RUNNING /\ ~W.procs[p].inputEnded
canExitMut(W, p) == W.procs[p].state # READY /\ W.procs[p].gExit < 2
canExit(W, p) == W.procs[p].state = RUNNING
canWriteMut(W, p) == W.procs[p].state = RUNNING
canWrite(W, p) == W.procs[p].state = RUNNING /\ W.procs[p].inputEnabled

\* Term.updateInput (Program.updateInput ignores the call): repaint the
\* prompt element from the foreground process
UpdateInput(W, p) ==
    IF W.halt # "" THEN W
    ELSE IF W.procs[p].kind # "Term" THEN W
    ELSE Bind(W.procs[p].stdout, LAMBDA prog :
            [Note(W, Ev("updateInput", p, prog, "", FALSE, 0,
                        W.procs[prog].prompt))
                EXCEPT !.tty.promptElement = W.procs[prog].prompt,
                       !.tty.promptOwner = prog])

\* Program.execute, lines 202-208
ExecuteBegin(W, p, args) ==
    Bind([Note(W, Ev("execute", p, NoProc, READY, TRUE, 0, <<>>)) EXCEPT
                  !.procs[p].state = RUNNING,
                  !.procs[p].args = args,
                  !.procs[p].gExec = @ + 1], LAMBDA W1 :
        Bind([W1 EXCEPT !.procs[W1.procs[p].stdin].stdout = p], LAMBDA W2 :
        Bind(W2.procs[p].parent, LAMBDA par :
       IF par # NoProc
       THEN [W2 EXCEPT !.procs[par].children = SetAdd(@, p)]
       ELSE W2)))

\* observation: the execute hook of p has returned; q is the stdin of p, st
\* its state now, x = <<its state when execute took effect, the state of p,
\* inputEnded of p>>
NoteExecuted(W4, p, before) ==
    IF W4.halt # "" THEN W4
    ELSE Note(W4, Ev("executed", p, W4.procs[p].stdin,
                     W4.procs[W4.procs[p].stdin].state, FALSE, 0,
                     <<before, W4.procs[p].state,
                       IF W4.procs[p].inputEnded THEN 1 ELSE 0>>))

\* Program.execute, lines 212-213
ExecuteFlushMut(W4, p) == W4
ExecuteFlush(W4, p) ==
    IF W4.halt = "" /\ W4.procs[W4.procs[p].stdin].state = TERMINATED
    THEN eof(W4, p)
    ELSE W4

\* Program.execute
Execute(W, p, args) ==
    IF W.halt # "" THEN W
    ELSE IF ~canExecute(W, p)
    THEN Note(W, Ev("execute", p, NoProc, W.procs[p].state, FALSE, 0, <<>>))
    ELSE
    Bind(onExecute(ExecuteBegin(W, p, args), p), LAMBDA W4 :
        Bind(ExecuteFlush(
                 NoteExecuted(W4, p, W.procs[W.procs[p].stdin].state), p),
             LAMBDA W5 :
       IF W4.ret # NoRet THEN exit(W5, p, W4.ret) ELSE W5))

\* Program.eof
Eof(W, p) ==
    IF W.halt # "" THEN W
    ELSE IF ~canEof(W, p) THEN [W EXCEPT !.procs[p].gEofAgain = TRUE]
    ELSE onEOF([Note(W, Ev("onEOF", p, NoProc, W.procs[p].state, TRUE, 0, <<>>))
                   EXCEPT !.procs[p].inputEnded = TRUE,
                          !.procs[p].gEOF = @ + 1], p)

\* Program.interrupt
Interrupt(W, p) ==
    IF W.halt # "" THEN W
    ELSE IF W.procs[p].state # RUNNING THEN W
    ELSE onInterrupt(W, p)

\* observation only: the RUNNING processes that have p among their ancestors
RECURSIVE HasAncestor(_, _, _)
HasAncestor(W, q, p) ==
    /\ W.procs[q].parent # NoProc
    /\ (W.procs[q].parent = p \/ HasAncestor(W, W.procs[q].parent, p))

RunningDescendants(W, p) ==
    Cardinality({q \in 1..Len(W.procs) :
                    W.procs[q].state = RUNNING /\ HasAncestor(W, q, p)})

\* observation only: the RUNNING descendants of p and its stdout when its
\* children have been exited (before was the number of RUNNING descendants
\* when the exit began), and the RUNNING descendants when exit returns
NoteReaped(W, p, before) ==
    IF W.halt # "" THEN W
    ELSE Note(W, Ev("reaped", p, W.procs[p].stdout, "", FALSE,
                    RunningDescendants(W, p), <<before>>))

NoteExitEnd(W, p) ==
    IF W.halt # "" THEN W
    ELSE Note(W, Ev("exitEnd", p, NoProc, "", FALSE, RunningDescendants(W, p),
                    <<>>))

\* `for (let child of this.children) child.exit()`: a Set is walked in
\* insertion order and entries deleted meanwhile are skipped
ExitChildrenMut(W, p, seen) == W

ExitChildren(W, p, seen) ==
    IF W.halt # "" THEN W
    ELSE Bind(SelectSeq(W.procs[p].children, LAMBDA c : c \notin seen), LAMBDA left :
            IF left = <<>> THEN W
            ELSE ExitChildren(exit(W, left[1], 0), p, seen \cup {left[1]}))

\* Program.exit, lines 246-251: the job returned, control goes to the parent
ExitHandback(W4, p) ==
    Bind(W4.procs[p].parent, LAMBDA par :
        Bind(IF W4.halt # "" \/ ~jobReturned(W4, p) THEN W4
              ELSE IF par = NoProc THEN [W4 EXCEPT !.halt = "TypeError"]
              ELSE Bind(W4.procs[par].stdin, LAMBDA input :
                      UpdateInput([W4 EXCEPT !.procs[input].stdout = par],
                                  input)), LAMBDA W4b :
       IF W4b.halt # "" \/ par = NoProc THEN W4b
       ELSE Bind(W4.procs[par].stdin, LAMBDA input :
               Note(W4b, Ev("handback", p, input,
                            W4b.procs[input].state,
                            jobReturned(W4, p),
                            Unreturned(W4, p),
                            <<W4.procs[input].stdout,
                              W4b.procs[input].stdout,
                              IF W4b.procs[p].inputEnded THEN 1 ELSE 0,
                              W4b.procs[par].state>>)))))

\* Program.exit, lines 253-254
ExitFlush(W5, p) ==
    IF W5.halt = "" /\ DomInputState = TERMINATED THEN eof(W5, p) ELSE W5

\* Program.exit, lines 256-259: update and notify the parent
ExitNotify(W6, p, code) ==
    IF W6.halt # "" THEN W6
    ELSE IF W6.procs[p].parent = NoProc THEN [W6 EXCEPT !.halt = "TypeError"]
    ELSE Bind([W6 EXCEPT !.procs[W6.procs[p].parent].children =
                            SetDelete(@, p)], LAMBDA W7 :
            NoteExitEnd(IF W7.procs[W7.procs[p].parent].state = RUNNING
                        THEN onReturn(W7, W7.procs[p].parent, p, code)
                        ELSE W7, p))

\* Program.exit
Exit(W, p, code) ==
    IF W.halt # "" THEN W
    ELSE IF ~canExit(W, p)
    THEN [Note(W, Ev("exit", p, NoProc, W.procs[p].state, FALSE, code, <<>>))
             EXCEPT !.procs[p].gExitAgain = TRUE]
    ELSE
    Bind(NoteReaped(ExitChildren(
                       [Note(W, Ev("exit", p, NoProc, RUNNING, TRUE, code, <<>>))
                           EXCEPT !.procs[p].state = TERMINATED,
                                  !.procs[p].inputEnabled = FALSE,
                                  !.procs[p].gExit = @ + 1,
                                  !.procs[p].gCode = code], p, {}),
                    p, RunningDescendants(W, p)), LAMBDA W2 :
        Bind(eof(W2, W2.procs[p].stdout), LAMBDA W3 :
        Bind(ExitHandback(eof(W3, W3.procs[p].stderr), p), LAMBDA W5 :
       ExitNotify(ExitFlush(W5, p), p, code))))

\* Program.write
Write(W, p, content) ==
    IF W.halt # "" THEN W
    ELSE Bind(Note(W, Ev("write", p, NoProc, W.procs[p].state,
                              W.procs[p].inputEnabled, 0, <<>>)), LAMBDA W1 :
            IF ~canWrite(W, p) THEN [W1 EXCEPT !.wret = FALSE]
            ELSE onWrite(W1, p, content))

\* ------------------------------------------------------------------ Async
\* Async.read: the storage is read at the call; the promise is settled
AsyncRead(W, path) ==
    IF path \in DOMAIN W.storage
    THEN [ok |-> TRUE, val |-> W.storage[path]]
    ELSE [ok |-> FALSE, val |-> path \o <<": no such file">>]

\* promise.then(f, g) on a settled promise queues the reaction
Then(W, kind, p, res) ==
    IF W.halt # "" THEN W
    ELSE [W EXCEPT !.micro =
             Append(@, [k |-> kind, p |-> p, ok |-> res.ok, val |-> res.val])]

\* the first rejected read, else the last one, settles Promise.all
RECURSIVE ReadAll(_, _, _)
ReadAll(W, files, acc) ==
    IF files = <<>> THEN [ok |-> TRUE, val |-> acc]
    ELSE Bind(AsyncRead(W, files[1]), LAMBDA r :
            IF r.ok THEN ReadAll(W, Tail(files), Append(acc, r.val)) ELSE r)

\* ------------------------------------------------------ hooks: onExecute
\* the command table `bin`
BinKind(cmd) ==
    CASE cmd = <<"sh">> -> "Shell"
      [] cmd = <<"vi">> -> "Editor"
      [] cmd = <<"js">> -> "Interpreter"
      [] cmd = <<"cat">> -> "Cat"
      [] cmd = <<"tee">> -> "Tee"
      [] cmd = <<"mv">> -> "Move"
      [] cmd = <<"head">> -> "Head"
      [] cmd = <<"tail">> -> "Tail"
      [] cmd = <<"grep">> -> "Grep"
      [] cmd = <<"sleep">> -> "Sleep"
      [] OTHER -> ""

\* entries of `bin` whose classes are not part of this model
OtherBins ==
    {<<"ls">>, <<"rm">>, <<"curl">>, <<"ps">>, <<"clear">>}

Ret(W, r) == IF W.halt # "" THEN W ELSE [W EXCEPT !.ret = r]

\* Shell.onExecute
ShellOnExecute(W, p) ==
    Bind(Arg(W.procs[p].args, 1), LAMBDA script :
       IF ~Falsy(script)
       THEN Then([W EXCEPT !.procs[p].script = script], "shScript", p,
                 AsyncRead(W, script))
       ELSE IF W.procs[W.procs[p].stdin].tty
       THEN Then(W, "shProfile", p, AsyncRead(W, <<".profile">>))
       ELSE [W EXCEPT !.procs[p].script = <<"-">>,
                      !.procs[p].inputEnabled = TRUE,
                      !.procs[p].loaded = TRUE])

\* the closures Shell.createProcess hands to Caller
CallerArgsMut(W, p, sh, args) == W

CallerArgs(W, p, sh, args) ==
    CASE W.procs[p].fn = "echo" ->
           writeText(W, W.procs[p].stdout,
                     Join([i \in 1..Len(args) |->
                              IF args[i] = Undef THEN <<>> ELSE args[i]],
                          " "))
      [] W.procs[p].fn = "set" ->
           exit(VarSet(W, sh, Arg(args, 1),
                       Join(SubSeq(args, 2, Len(args)), " ")),
                p, 0)
      [] W.procs[p].fn = "exit" ->
           IF Falsy(Arg(args, 1)) THEN exit(W, sh, 0)
           ELSE IF ParseInt(args[1]) = NaN
           THEN exit(writeText(W, W.procs[p].stderr,
                         <<"sh: exit: ">> \o args[1]
                             \o <<": numeric argument required">>),
                     sh, 2)
           ELSE exit(W, sh, ParseInt(args[1]))
      [] OTHER -> W

CallerFn(W, p) == CallerArgs(W, p, W.procs[p].parent, W.procs[p].args)

\* Cat.onExecute
CatOnExecute(W, p) ==
    IF Len(W.procs[p].args) = 0
    THEN [W EXCEPT !.procs[p].inputEnabled = TRUE]
    ELSE Then(W, "catAll", p, ReadAll(W, W.procs[p].args, <<>>))

\* Tee.onExecute: Async.write stores at the call, its reaction is queued
TeeOnExecute(W, p) ==
    Then([W EXCEPT !.procs[p].content = <<>>,
                   !.procs[p].file = Arg(W.procs[p].args, 1),
                   !.procs[p].inputEnabled = TRUE,
                   !.procs[p].promise = "pending",
                   !.storage = MapSet(@, Arg(W.procs[p].args, 1), <<>>)],
         "teeWrite", p, [ok |-> TRUE, val |-> <<>>])

\* Tee.appendNext: Async.append stores at the call, its reaction is queued
appendNext(W, p) ==
    IF W.halt # "" THEN W
    ELSE IF \/ W.procs[p].state # RUNNING
            \/ W.procs[p].promise # "null"
            \/ Len(W.procs[p].content) = 0
    THEN W
    ELSE Then([W EXCEPT
                 !.storage =
                     MapSet(@, W.procs[p].file,
                            (IF Falsy(MapGet(W.storage, W.procs[p].file))
                             THEN <<>> ELSE W.storage[W.procs[p].file])
                                \o Join(W.procs[p].content, "\n") \o <<"\n">>),
                 !.procs[p].content = <<>>,
                 !.procs[p].promise = "pending"],
              "teeAppend", p, [ok |-> TRUE, val |-> <<>>])

\* Head.onExecute and Tail.onExecute
CountOnExecute(W, p, name) ==
    Bind(ParseInt(Arg(W.procs[p].args, 1)), LAMBDA n :
        Bind([W EXCEPT !.procs[p].counter = n], LAMBDA W1 :
       IF n = NaN
       THEN Ret(writeText(W1, W1.procs[p].stderr,
                          <<name, ": invalid number of items">>), 1)
       ELSE IF n <= 0 THEN Ret(W1, 0)
       ELSE [W1 EXCEPT !.procs[p].inputEnabled = TRUE,
                       !.procs[p].items = <<>>]))

\* Grep.onExecute
GrepOnExecute(W, p) ==
    IF Arg(W.procs[p].args, 1) = Undef
    THEN Ret(writeText(W, W.procs[p].stderr, <<"grep: missing pattern">>), 2)
    ELSE [W EXCEPT !.procs[p].inputEnabled = TRUE,
                   !.procs[p].pattern = W.procs[p].args[1],
                   !.procs[p].matched = FALSE]

\* Sleep.onExecute
SleepOnExecute(W, p) ==
    IF ParseInt(Arg(W.procs[p].args, 1)) = NaN
    THEN Ret(writeText(W, W.procs[p].stderr, <<"sleep: invalid time">>), 1)
    ELSE [W EXCEPT !.timers = @ \cup {p}]

\* Async.move: the store after the call, and how the promise settles
AsyncMove(W, path, target) ==
    IF path \notin DOMAIN W.storage
    THEN [storage |-> W.storage, ok |-> FALSE,
          val |-> path \o <<": no such file">>]
    ELSE [storage |->
              Bind(MapSet(W.storage, target, W.storage[path]), LAMBDA st :
                  [k \in DOMAIN st \ {path} |-> st[k]]),
          ok |-> TRUE, val |-> <<>>]

\* Move.onExecute; the call of Async.move is observed with the store it found
MoveOnExecute(W, p) ==
    Bind(Arg(W.procs[p].args, 1), LAMBDA path :
        Bind(Arg(W.procs[p].args, 2), LAMBDA target :
       IF Falsy(path)
       THEN Ret(writeText(W, W.procs[p].stderr,
                          <<"mv: missing file operand">>), 1)
       ELSE IF Falsy(target)
       THEN Ret(writeText(W, W.procs[p].stderr,
                          <<"mv: missing destination file operand">>), 1)
       ELSE Bind(AsyncMove(W, path, target), LAMBDA r :
               Then(Note([W EXCEPT !.storage = r.storage],
                         Ev("move", p, NoProc, "", r.ok, 0,
                            <<path, target, W.storage>>)),
                    "mvThen", p, r))))

\* ------------------------------------------------------------------ Editor
\* the character classes ID, SYM and WS; `undefined` is tested as the
\* string "undefined"
SymChars == {";", "|", "&", "<", ">", ".", "-", "*", "="}
BlankChars == {" ", "\t"}
TestChar(type, c) ==
    CASE type = "ID" -> c \notin SymChars \cup BlankChars
      [] type = "SYM" -> c \in SymChars
      [] type = "WS" -> c \in BlankChars
      [] OTHER -> FALSE

\* `line[idx]`
CharAt(line, idx) ==
    IF idx \in 0..(Len(line) - 1) THEN line[idx + 1] ELSE "undefined"

\* Array.prototype.splice(at, 0, item) and splice(at, 1)
InsertAt(seq, at, item) ==
    SubSeq(seq, 1, at) \o <<item>> \o SubSeq(seq, at + 1, Len(seq))
RemoveAt(seq, at) ==
    SubSeq(seq, 1, at) \o SubSeq(seq, at + 2, Len(seq))

\* get line
EdLine(W, p) ==
    IF W.procs[p].cursorLine \in 0..(Len(W.procs[p].buffer) - 1)
    THEN W.procs[p].buffer[W.procs[p].cursorLine + 1]
    ELSE Undef

\* set line (on a line of the buffer)
SetLine(W, p, value) ==
    IF W.halt # "" THEN W
    ELSE IF W.procs[p].cursorLine \in 0..(Len(W.procs[p].buffer) - 1)
    THEN [W EXCEPT !.procs[p].buffer[W.procs[p].cursorLine + 1] = value]
    ELSE [W EXCEPT !.halt = "unmodelled"]

\* set cursorLine
SetCursorLine(W, p, value) ==
    IF W.halt # "" THEN W
    ELSE [W EXCEPT !.procs[p].cursorLine =
             IF value < 0 THEN 0
             ELSE IF value >= Len(W.procs[p].buffer)
             THEN Len(W.procs[p].buffer)
             ELSE value]

\* the column both column setters store
ClampColumnMut(line, mode, value) ==
    IF Len(line) = 0 \/ value < 0 THEN 0
    ELSE IF value >= Len(line) THEN Len(line)
    ELSE value

ClampColumn(line, mode, value) ==
    IF Len(line) = 0 \/ value < 0 THEN 0
    ELSE IF value >= Len(line)
    THEN Len(line) - (IF mode = "i" THEN 0 ELSE 1)
    ELSE value

\* set cursorColumn; `this.line.length` throws when there is no such line
SetCursorColumn(W, p, value) ==
    IF W.halt # "" THEN W
    ELSE IF EdLine(W, p) = Undef THEN [W EXCEPT !.halt = "TypeError"]
    ELSE [W EXCEPT !.procs[p].cursorColumn =
             ClampColumn(EdLine(W, p), W.procs[p].mode, value)]

\* set virtualColumn
SetVirtualColumn(W, p, value) ==
    IF W.halt # "" THEN W
    ELSE IF EdLine(W, p) = Undef THEN [W EXCEPT !.halt = "TypeError"]
    ELSE [W EXCEPT !.procs[p].cursorColumn =
                       ClampColumn(EdLine(W, p), W.procs[p].mode, value),
                   !.procs[p].virtualColumn =
                       ClampColumn(EdLine(W, p), W.procs[p].mode, value)]

\* the reaction to the read of the file
EditorLoad(W, p, content) ==
    SetVirtualColumn(
        SetCursorLine([W EXCEPT !.procs[p].buffer = SplitOn(content, {"\n"})],
                      p, 0), p, 0)

\* Editor.save
EditorSave(W, p) ==
    IF W.halt # "" \/ W.procs[p].promise # "null" THEN W
    ELSE Then([W EXCEPT !.storage = MapSet(@, W.procs[p].file,
                                           Join(W.procs[p].buffer, "\n")),
                        !.procs[p].promise = "pending"],
              "viSave", p, [ok |-> TRUE, val |-> <<>>])

\* the reaction to the write of the file
EditorSaved(W, p) ==
    IF W.procs[p].ending
    THEN exit([W EXCEPT !.procs[p].promise = "null"], p, 0)
    ELSE [W EXCEPT !.procs[p].promise = "null"]

\* insert mode, Enter
EdEnter(W, p) ==
    IF EdLine(W, p) = Undef THEN [W EXCEPT !.halt = "TypeError"]
    ELSE Bind(SubSeq(EdLine(W, p), W.procs[p].cursorColumn + 1,
                     Len(EdLine(W, p))), LAMBDA next :
         Bind(SetLine(W, p, SubSeq(EdLine(W, p), 1, W.procs[p].cursorColumn)),
              LAMBDA W1 :
         Bind([W1 EXCEPT !.procs[p].buffer =
                  InsertAt(@, W1.procs[p].cursorLine + 1, next)], LAMBDA W2 :
        SetVirtualColumn(SetCursorLine(W2, p, W2.procs[p].cursorLine + 1),
                         p, 0))))

\* insert mode, Escape
EdEscape(W, p) ==
    Bind([W EXCEPT !.procs[p].mode = "n"], LAMBDA W1 :
       IF W1.procs[p].cursorColumn > 0
       THEN SetVirtualColumn(W1, p, W1.procs[p].cursorColumn - 1)
       ELSE W1)

\* insert mode, Backspace: delete a character, or join with the line above
EdBackspace(W, p) ==
    IF W.procs[p].cursorColumn > 0
    THEN SetVirtualColumn(
             SetLine(W, p, RemoveAt(EdLine(W, p),
                                    W.procs[p].cursorColumn - 1)),
             p, W.procs[p].cursorColumn - 1)
    ELSE IF W.procs[p].cursorLine > 0
    THEN Bind(W.procs[p].cursorLine, LAMBDA ln :
         Bind(Len(W.procs[p].buffer[ln]), LAMBDA col :
         Bind([W EXCEPT !.procs[p].buffer =
                  RemoveAt([@ EXCEPT ![ln] = @ \o EdLine(W, p)], ln)],
              LAMBDA W1 :
        SetVirtualColumn(SetCursorLine(W1, p, ln - 1), p, col))))
    ELSE W

\* insert mode, a printable key
EdInsert(W, p, key) ==
    IF EdLine(W, p) = Undef THEN [W EXCEPT !.halt = "TypeError"]
    ELSE SetVirtualColumn(
             SetLine(W, p, InsertAt(EdLine(W, p), W.procs[p].cursorColumn,
                                    key)),
             p, W.procs[p].cursorColumn + 1)

\* normal mode, `o`
EdOpen(W, p) ==
    Bind([W EXCEPT !.procs[p].mode = "i",
                   !.procs[p].buffer =
                       InsertAt(@, W.procs[p].cursorLine + 1, <<>>)],
         LAMBDA W1 :
        SetVirtualColumn(SetCursorLine(W1, p, W1.procs[p].cursorLine + 1),
                         p, 0))

\* normal mode, `j` and `k`: the line changes, the column is re-checked
EdVertical(W, p, step) ==
    Bind(SetCursorLine(W, p, W.procs[p].cursorLine + step), LAMBDA W1 :
       IF W1.procs[p].cursorColumn < W1.procs[p].virtualColumn
       THEN SetCursorColumn(W1, p, W1.procs[p].virtualColumn)
       ELSE SetCursorColumn(W1, p, W1.procs[p].cursorColumn))

\* normal mode, `w`: the loop that looks for the start of the next word;
\* -1 when the line has none
RECURSIVE NextWord(_, _, _)
NextWord(line, idx, type) ==
    IF idx >= Len(line) THEN -1
    ELSE IF type # "null" /\ TestChar(type, CharAt(line, idx))
    THEN NextWord(line, idx + 1, type)
    ELSE IF ~TestChar("WS", CharAt(line, idx)) THEN idx
    ELSE NextWord(line, idx + 1, "null")

TypeAt(line, idx) ==
    IF TestChar("ID", CharAt(line, idx)) THEN "ID"
    ELSE IF TestChar("SYM", CharAt(line, idx)) THEN "SYM"
    ELSE "null"

EdWord(W, p) ==
    IF EdLine(W, p) = Undef THEN [W EXCEPT !.halt = "TypeError"]
    ELSE Bind(NextWord(EdLine(W, p), W.procs[p].cursorColumn,
                       TypeAt(EdLine(W, p), W.procs[p].cursorColumn)),
              LAMBDA idx :
        IF idx >= 0 THEN SetVirtualColumn(W, p, idx)
        ELSE IF W.procs[p].cursorLine < Len(W.procs[p].buffer) - 1
        THEN SetCursorLine(SetVirtualColumn(W, p, 0), p,
                           W.procs[p].cursorLine + 1)
        ELSE SetVirtualColumn(W, p, Len(EdLine(W, p)) - 1))

\* normal mode, `b`: the loop that looks for the start of the word before
\* the cursor; -1 when there is none
RECURSIVE PrevWord(_, _, _)
PrevWord(line, idx, type) ==
    IF idx < 0 THEN -1
    ELSE IF type = "null" THEN PrevWord(line, idx - 1, TypeAt(line, idx))
    ELSE IF TestChar(type, CharAt(line, idx))
    THEN PrevWord(line, idx - 1, type)
    ELSE idx + 1

EdBackScan(W, p) ==
    IF W.halt # "" THEN W
    ELSE Bind(PrevWord(EdLine(W, p), W.procs[p].cursorColumn, "null"),
              LAMBDA idx :
        SetVirtualColumn(W, p, IF idx >= 0 THEN idx ELSE 0))

EdBack(W, p) ==
    IF EdLine(W, p) = Undef THEN [W EXCEPT !.halt = "TypeError"]
    ELSE IF W.procs[p].cursorColumn = 0
    THEN IF W.procs[p].cursorLine = 0 THEN W
         ELSE Bind(SetCursorLine(W, p, W.procs[p].cursorLine - 1), LAMBDA W1 :
                EdBackScan(SetVirtualColumn(W1, p, Len(EdLine(W1, p)) - 1),
                           p))
    ELSE EdBackScan(SetVirtualColumn(W, p, W.procs[p].cursorColumn - 1), p)

\* Editor.onInput in insert mode
EditorInsertMode(W, p, key) ==
    CASE key = "Enter" -> EdEnter(W, p)
      [] key = "Escape" -> EdEscape(W, p)
      [] key = "Backspace" -> EdBackspace(W, p)
      [] key \in {"Tab", "ArrowLeft"} -> W
      [] OTHER -> EdInsert(W, p, key)

\* Editor.onInput in normal mode
EditorNormalMode(W, p, key) ==
    CASE key = "a" ->
           SetVirtualColumn([W EXCEPT !.procs[p].mode = "i"], p,
                            W.procs[p].cursorColumn + 1)
      [] key = "i" -> [W EXCEPT !.procs[p].mode = "i"]
      [] key = "o" -> EdOpen(W, p)
      [] key = "j" ->
           IF W.procs[p].cursorLine < Len(W.procs[p].buffer) - 1
           THEN EdVertical(W, p, 1) ELSE W
      [] key = "k" ->
           IF W.procs[p].cursorLine > 0 THEN EdVertical(W, p, -1) ELSE W
      [] key = "l" ->
           IF EdLine(W, p) = Undef THEN [W EXCEPT !.halt = "TypeError"]
           ELSE IF W.procs[p].cursorColumn < Len(EdLine(W, p)) - 1
           THEN SetVirtualColumn(W, p, W.procs[p].cursorColumn + 1)
           ELSE W
      [] key = "h" ->
           IF W.procs[p].cursorColumn > 0
           THEN SetVirtualColumn(W, p, W.procs[p].cursorColumn - 1)
           ELSE W
      [] key = "w" -> EdWord(W, p)
      [] key = "b" -> EdBack(W, p)
      [] key = "$" ->
           IF EdLine(W, p) = Undef THEN [W EXCEPT !.halt = "TypeError"]
           ELSE SetVirtualColumn(
                    SetCursorColumn(W, p, Len(EdLine(W, p)) - 1),
                    p, Len(EdLine(W, p)) - 1)
      [] key = "^" -> SetVirtualColumn(SetCursorColumn(W, p, 0), p, 0)
      [] key = "q" -> exit(W, p, 0)
      [] key = "z" -> EditorSave([W EXCEPT !.procs[p].ending = TRUE], p)
      [] OTHER -> W

\* Editor.onInput; each key is observed with the cursor it found
EditorOnInput(W0, p, key) ==
    Bind(Note(W0, Ev("key", p, p, key, W0.procs[p].mode = "i", 0,
                     <<W0.procs[p].cursorLine, W0.procs[p].cursorColumn>>)),
         LAMBDA W :
       IF W.procs[p].ending THEN W
       ELSE IF W.procs[p].mode = "i" THEN EditorInsertMode(W, p, key)
       ELSE EditorNormalMode(W, p, key))

\* Editor.onExecute: the read has no rejection handler
EditorOnExecute(W, p) ==
    Bind(Arg(W.procs[p].args, 1), LAMBDA file :
        Bind(AsyncRead(W, file), LAMBDA r :
       IF Falsy(file)
       THEN Ret(writeText(W, W.procs[p].stderr, <<"vi: no file to edit">>), 1)
       ELSE IF r.ok
       THEN Then([W EXCEPT !.procs[p].file = file], "viRead", p, r)
       ELSE [W EXCEPT !.procs[p].file = file]))

\* Term.onExecute(shell)
TermOnExecute(W, p) ==
    Bind(NewShell(W, p), LAMBDA W1 :
        Bind(execute(W1, W1.newp, <<>>), LAMBDA W2 :
       UpdateInput(W2, p)))

\* the onExecute of p's class; W0 holds no return value yet
OnExecuteOf(W0, p, kind) ==
    CASE kind = "Term" -> Ret(TermOnExecute(W0, p), NoRet)
      [] kind = "Shell" -> ShellOnExecute(W0, p)
      [] kind = "Printer" ->
           Ret(writeText(W0, W0.procs[p].stdout, W0.procs[p].content), 0)
      [] kind = "Caller" -> Ret(CallerFn(W0, p), 0)
      [] kind = "Cat" -> CatOnExecute(W0, p)
      [] kind = "Tee" -> TeeOnExecute(W0, p)
      [] kind = "Move" -> MoveOnExecute(W0, p)
      [] kind = "Head" -> CountOnExecute(W0, p, "head")
      [] kind = "Tail" -> CountOnExecute(W0, p, "tail")
      [] kind = "Grep" -> GrepOnExecute(W0, p)
      [] kind = "Sleep" -> SleepOnExecute(W0, p)
      [] kind = "Editor" -> EditorOnExecute(W0, p)
      [] OTHER -> W0

OnExecute(W, p) ==
    IF W.halt # "" THEN W
    ELSE OnExecuteOf([W EXCEPT !.ret = NoRet], p, W.procs[p].kind)

\* -------------------------------------------------------- hooks: onWrite
WRet(W, b) == IF W.halt # "" THEN W ELSE [W EXCEPT !.wret = b]

\* Term.onWrite: append the payload to the output pane
TermOnWrite(W, p, content) ==
    IF Len(W.tty.output) >= MaxOut THEN [W EXCEPT !.halt = "overflow"]
    ELSE [W EXCEPT !.tty.output = Append(@, content)]

\* Array.prototype.slice(start)
Slice(seq, start) ==
    Bind(IF start < 0
                THEN (IF Len(seq) + start < 0 THEN 0 ELSE Len(seq) + start)
                ELSE start, LAMBDA from :
       SubSeq(seq, from + 1, Len(seq)))

\* `this.history.length - Number.parseInt(HIST_SIZE) || 100`
HistStart(len, size) ==
    IF size = NaN \/ len - size = 0 THEN 100 ELSE len - size

\* observation: a history write starts; st is historyPromise before it,
\* flag whether the history had been loaded, code the number of writes of
\* this shell still pending, x = <<the history, HIST_SIZE, the text written>>
NoteHistWrite(W1, W, p, hist) ==
    Note(W1, Ev("histWrite", p, NoProc, W.procs[p].historyPromise,
                W.procs[p].gHistLoaded,
                Cardinality({i \in 1..Len(W.micro) :
                                W.micro[i].k = "histWrite" /\ W.micro[i].p = p}),
                <<W.procs[p].history,
                  MapGet(W.procs[p].variables, <<"HIST_SIZE">>),
                  Join(hist, "\n")>>))

\* `if (this.historyPromise === null)`
canSaveHistoryMut(W, p) == TRUE
canSaveHistory(W, p) == W.procs[p].historyPromise = "null"

\* Shell.onWrite: the history file is written when no write is pending
ShellSaveHistory(W, p) ==
    Bind(W.procs[p], LAMBDA me :
        Bind(Slice(me.history,
                      HistStart(Len(me.history),
                                ParseInt(MapGet(me.variables, <<"HIST_SIZE">>)))), LAMBDA hist :
       IF canSaveHistory(W, p)
       THEN Then(NoteHistWrite([W EXCEPT
                    !.storage = MapSet(@, MapGet(me.variables,
                                                 <<"HIST_FILE">>),
                                       Join(hist, "\n")),
                    !.procs[p].historyPromise = "pending"], W, p, hist),
                 "histWrite", p, [ok |-> TRUE, val |-> <<>>])
       ELSE W))

\* the program names of the first job that executeCommand(content) queues,
\* <<>> when it queues none
FirstJob(content) ==
    Bind(SelectSeq(SplitOn(content, {"\n", ";"}), LAMBDA l : Trim(l) # <<>>),
         LAMBDA lines :
        IF lines = <<>> THEN <<>>
        ELSE Bind(SplitOn(lines[1], {"|"}), LAMBDA stages :
                 [i \in 1..Len(stages) |-> SplitWS(Trim(stages[i]))[1]]))

\* observation: a command line reaches the shell; flag and code are
\* gNotFound and the length of the queue before it
NoteCommand(W, p, str) ==
    IF W.halt # "" THEN W
    ELSE [Note(W, Ev("command", p, NoProc, W.procs[p].state,
                     W.procs[p].gNotFound, Len(W.procs[p].jobs), str))
             EXCEPT !.procs[p].gNotFound = @ /\ FirstJob(str) = <<>>]

\* Shell.onWrite
ShellOnWrite(W, p, content) ==
    executeCommand(NoteCommand(ShellSaveHistory(W, p), p, OutStr(content)),
                   p, OutStr(content))

\* observation: the filter p received a payload of these items
NoteIn(W, p, items) ==
    IF W.halt # "" THEN W ELSE [W EXCEPT !.procs[p].gIn = Append(@, items)]

\* observation: the filter p writes a payload of these items to its stdout
NoteOut(W, p, items, atEOF) ==
    IF W.halt # "" THEN W
    ELSE [W EXCEPT !.procs[p].gOut =
             Append(@, [at |-> Len(W.procs[p].gIn), eof |-> atEOF,
                        items |-> items])]

\* `content.items().slice(0, this.counter)`
HeadItemsMut(all, n) == all

HeadItems(all, n) == SubSeq(all, 1, IF n < Len(all) THEN n ELSE Len(all))

\* Head.onWrite
HeadOnWrite(W, p, content) ==
    Bind(OutItems(content), LAMBDA all :
        Bind(W.procs[p].counter, LAMBDA n :
        Bind(HeadItems(all, n), LAMBDA items :
        Bind(write(NoteOut(NoteIn(W, p, all), p, items, FALSE),
                   W.procs[p].stdout, ArrayOutput(items)), LAMBDA W1 :
       IF W1.halt # "" THEN W1
       ELSE IF ~W1.wret THEN exit(W1, p, 0)
       ELSE Bind([W1 EXCEPT !.procs[p].counter = @ - Len(items)], LAMBDA W2 :
               IF W2.procs[p].counter = 0 THEN exit(W2, p, 0) ELSE W2)))))

\* Tail.onWrite
TailPushMut(buf, new, n) == buf \o new

RECURSIVE TailPush(_, _, _)
TailPush(buf, new, n) ==
    IF new = <<>> THEN buf
    ELSE TailPush(Append(IF Len(buf) = n THEN Tail(buf) ELSE buf, new[1]),
                  Tail(new), n)

\* RegExp.test for a pattern of literal lexemes: some window of s equals it
Test(pattern, str) ==
    \E i \in 1..(Len(str) + 1) :
        /\ i + Len(pattern) - 1 <= Len(str)
        /\ SubSeq(str, i, i + Len(pattern) - 1) = pattern

\* `content.items().filter(e => this.pattern.test(e.str()))`
GrepMatchesMut(items, pattern) == items

GrepMatches(items, pattern) ==
    SelectSeq(items, LAMBDA e : Test(pattern, OutStr(e)))

\* Grep.onWrite
GrepOnWrite(W0, p, content) ==
    Bind(NoteIn(W0, p, OutItems(content)), LAMBDA W :
    Bind(GrepMatches(OutItems(content), W.procs[p].pattern), LAMBDA matches :
       IF matches = <<>> THEN W
       ELSE Bind(write(NoteOut(W, p, matches, FALSE), W.procs[p].stdout,
                       ArrayOutput(matches)), LAMBDA W1 :
               IF W1.halt # "" THEN W1
               ELSE [W1 EXCEPT !.procs[p].matched = TRUE])))

\* the callback Shell.createProcess hands to the `read` Monitor
ReadCallback(W, p, content) ==
    exit(VarSet(W, W.procs[p].parent, Arg(W.procs[p].args, 1),
                OutStr(content)), p, 0)

\* `eval(src)` inside Interpreter.onWrite, where `this` is the interpreter:
\* the value or the error, and whether the statement set `this.password`;
\* the text of an engine's error message is not modelled
Eval(src) ==
    CASE src = <<"this.password=true">> ->
           [ok |-> TRUE, val |-> <<"true">>, password |-> TRUE]
      [] src = <<"1">> -> [ok |-> TRUE, val |-> <<"1">>, password |-> FALSE]
      [] Trim(src) = <<>> ->
           [ok |-> TRUE, val |-> <<"undefined">>, password |-> FALSE]
      [] OTHER -> [ok |-> FALSE, val |-> <<"Error">>, password |-> FALSE]

\* Interpreter.onWrite
InterpreterOnWrite(W, p, content) ==
    Bind(Eval(OutStr(content)), LAMBDA r :
       IF r.ok
       THEN write([W EXCEPT !.procs[p].password = @ \/ r.password],
                  W.procs[p].stdout, ObjectOutput(r.val))
       ELSE writeText(W, W.procs[p].stderr, r.val))

\* Tee.onWrite
TeeOnWrite(W, p, content) ==
    appendNext(write([NoteIn(W, p, <<content>>) EXCEPT
                         !.procs[p].content = Append(@, OutStr(content))],
                     W.procs[p].stdout, content), p)

\* the onWrite of p's class
OnWriteOf(W, p, content, kind) ==
    CASE kind = "Term" -> WRet(TermOnWrite(W, p, content), TRUE)
      [] kind = "TermError" ->
           WRet(writeRaw(W, W.procs[p].stdout,
                         span(escapeHTML(OutStr(content)), "error")),
                TRUE)
      [] kind = "Monitor" -> WRet(ReadCallback(W, p, content), TRUE)
      [] kind = "Shell" -> WRet(ShellOnWrite(W, p, content), TRUE)
      [] kind = "Cat" ->
           WRet(write(W, W.procs[p].stdout, content), TRUE)
      [] kind = "Tee" -> WRet(TeeOnWrite(W, p, content), TRUE)
      [] kind = "Interpreter" -> WRet(InterpreterOnWrite(W, p, content), TRUE)
      [] kind = "Head" -> WRet(HeadOnWrite(W, p, content), TRUE)
      [] kind = "Tail" ->
           WRet([NoteIn(W, p, OutItems(content)) EXCEPT !.procs[p].items =
                    TailPush(@, OutItems(content),
                             W.procs[p].counter)], TRUE)
      [] kind = "Grep" -> WRet(GrepOnWrite(W, p, content), TRUE)
      [] OTHER -> WRet(W, FALSE)

OnWrite(W0, p, content) ==
    IF W0.halt # "" THEN W0
    ELSE OnWriteOf(Note(W0, Ev("onWrite", p, NoProc, W0.procs[p].state,
                               W0.procs[p].inputEnabled, 0, <<>>)),
                   p, content, W0.procs[p].kind)

\* ------------------------------------------ hooks: onEOF and onInterrupt
\* Program.onEOF
DefaultOnEOFMut(W, p) == W
DefaultOnEOF(W, p) ==
    IF W.procs[p].inputEnabled THEN exit(W, p, 0) ELSE W

OnEOF(W, p) ==
    IF W.halt # "" THEN W
    ELSE CASE W.procs[p].kind \in {"Term", "TermError"} -> W
           [] W.procs[p].kind = "Shell" -> exit(W, p, W.procs[p].exitCode)
           [] W.procs[p].kind = "Tail" ->
                exit(write(NoteOut(W, p, W.procs[p].items, TRUE),
                           W.procs[p].stdout,
                           ArrayOutput(W.procs[p].items)), p, 0)
           [] W.procs[p].kind = "Grep" ->
                exit(W, p, IF W.procs[p].matched THEN 0 ELSE 1)
           [] OTHER -> DefaultOnEOF(W, p)

\* Program.onInterrupt
DefaultOnInterruptMut(W, p) ==
    IF W.procs[p].parent # NoProc THEN interrupt(W, W.procs[p].parent) ELSE W

DefaultOnInterrupt(W, p) ==
    exit(IF W.procs[p].parent # NoProc THEN interrupt(W, W.procs[p].parent)
         ELSE W, p, 130)

OnInterrupt(W, p) ==
    IF W.halt # "" THEN W
    ELSE CASE W.procs[p].kind = "Shell" ->
                IF ~W.procs[W.procs[p].stdin].tty
                THEN DefaultOnInterrupt(W, p)
                ELSE W
           [] W.procs[p].kind = "Sleep" ->
                DefaultOnInterrupt([W EXCEPT !.timers = @ \ {p}], p)
           [] OTHER -> DefaultOnInterrupt(W, p)

\* ------------------------------------------------------------------ Shell
\* Shell.createProcess: W.newp is the process, NoProc when there is none
createProcess(W, s, cmd) ==
    IF W.halt # "" THEN W
    ELSE CASE cmd = <<"history">> ->
                NewPrinter(W, s, Join(W.procs[s].history, "\n"))
           [] cmd = <<"read">> -> NewMonitor(W, s, "read")
           [] cmd = <<"echo">> -> NewCaller(W, s, "echo")
           [] cmd = <<"set">> -> NewCaller(W, s, "set")
           [] cmd = <<"exit">> -> NewCaller(W, s, "exit")
           [] cmd \in OtherBins -> [W EXCEPT !.halt = "unmodelled"]
           [] BinKind(cmd) = "" ->
                Bind(writeText(W, W.procs[s].stderr,
                                    <<"sh: command not found: ">> \o cmd), LAMBDA W1 :
                   IF W1.halt # "" THEN W1 ELSE [W1 EXCEPT !.newp = NoProc])
           [] BinKind(cmd) = "Shell" -> NewShell(W, s)
           [] BinKind(cmd) = "Editor" -> NewEditor(W, s)
           [] BinKind(cmd) = "Interpreter" -> NewInterpreter(W, s)
           [] OTHER -> NewBin(W, s, BinKind(cmd))

\* Shell.queueJob
queueJob(W, s, str) ==
    IF W.halt # "" THEN W
    ELSE IF Trim(str) = <<>> THEN W
    ELSE Bind(SplitOn(str, {"|"}), LAMBDA stages :
             Bind([i \in 1..Len(stages) |-> SplitWS(Trim(stages[i]))], LAMBDA programs :
            IF \E i \in 1..Len(programs) : Len(programs[i]) = 0
            THEN setReturnCode(writeText(W, W.procs[s].stderr,
                                         <<"sh: invalid pipe">>), s, 1)
            ELSE [W EXCEPT !.procs[s].jobs = Append(@, programs)]))

\* `programs.map(e => this.createProcess(e[0]))`
RECURSIVE CreateAll(_, _, _, _)
CreateAll(W, s, programs, acc) ==
    IF W.halt # "" THEN [w |-> W, ps |-> acc]
    ELSE IF programs = <<>> THEN [w |-> W, ps |-> acc]
    ELSE Bind(createProcess(W, s, programs[1][1]), LAMBDA W1 :
            CreateAll(W1, s, Tail(programs), Append(acc, W1.newp)))

\* `processes[i].job = processes` and the stdin / stdout links
WireMut(W, processes) ==
    [W EXCEPT !.procs =
        [q \in 1..Len(W.procs) |->
            IF \E i \in 1..Len(processes) : processes[i] = q
            THEN Bind(CHOOSE i \in 1..Len(processes) : processes[i] = q, LAMBDA i :
                    [W.procs[q] EXCEPT
                       !.job = processes,
                       !.stdout = IF i < Len(processes) THEN processes[i + 1]
                                  ELSE @])
            ELSE W.procs[q]]]

Wire(W, processes) ==
    [W EXCEPT !.procs =
        [q \in 1..Len(W.procs) |->
            IF \E i \in 1..Len(processes) : processes[i] = q
            THEN Bind(CHOOSE i \in 1..Len(processes) : processes[i] = q, LAMBDA i :
                    [W.procs[q] EXCEPT
                       !.job = processes,
                       !.stdin = IF i > 1 THEN processes[i - 1] ELSE @,
                       !.stdout = IF i < Len(processes) THEN processes[i + 1]
                                  ELSE @])
            ELSE W.procs[q]]]

\* resolve environment variables in the arguments of one stage
Resolve(W, s, args) ==
    [k \in 1..Len(args) |->
        IF Len(args[k]) > 0 /\ args[k][1] = "$"
        THEN MapGet(W.procs[s].variables, Tail(args[k]))
        ELSE args[k]]

\* `this.stdin.updateInput()`
RepaintStdin(W, s) ==
    IF W.halt # "" THEN W ELSE UpdateInput(W, W.procs[s].stdin)

\* the launch loop of nextJob, from the last stage down to the first
RECURSIVE Launch(_, _, _, _, _)
RECURSIVE LaunchMut(_, _, _, _, _)
LaunchMut(W, s, processes, programs, i) ==
    IF W.halt # "" \/ i = 0 THEN W
    ELSE Bind(Len(processes) - i + 1, LAMBDA k :
            LaunchMut(execute(W, processes[k],
                              Resolve(W, s, Tail(programs[k]))),
                      s, processes, programs, i - 1))

Launch(W, s, processes, programs, i) ==
    IF W.halt # "" \/ i = 0 THEN W
    ELSE Launch(execute(W, processes[i], Resolve(W, s, Tail(programs[i]))),
                s, processes, programs, i - 1)

\* Shell.nextJob, lines 827-844: the job is marked running, wired and launched
NextJobLaunch(W, s, processes, programs) ==
    RepaintStdin(Launch(Wire(Note([W EXCEPT !.procs[s].jobRunning = TRUE],
                                  Ev("launch", s, processes[1], "",
                                     \E q \in 1..Len(W.procs) :
                                         /\ W.procs[q].parent = s
                                         /\ W.procs[q].state = RUNNING,
                                     0, processes)),
                             processes),
                        s, processes, programs, Len(processes)), s)

\* observation: nextJob gave up on a job; x = <<the processes created, the
\* program names, the newest item of the terminal's output>>
NoteNotFound(W, s, ps, programs) ==
    IF W.halt # "" THEN W
    ELSE [Note(W, Ev("notFound", s, NoProc, W.procs[s].state,
                     W.procs[s].inputEnabled, Len(W.procs[s].jobs),
                     <<ps, [i \in 1..Len(programs) |-> programs[i][1]],
                       IF W.tty.output = <<>> THEN <<>>
                       ELSE W.tty.output[Len(W.tty.output)]>>))
             EXCEPT !.procs[s].gNotFound = TRUE]

\* Shell.nextJob, lines 814-818
NextJobGiveUp(c, s, programs) ==
    NoteNotFound(setReturnCode(c.w, s, 127), s, c.ps, programs)

\* Shell.nextJob, from the created processes c on
NextJobRun(c, s, programs) ==
    IF c.w.halt # "" THEN c.w
    ELSE IF \E i \in 1..Len(c.ps) : c.ps[i] = NoProc
    THEN NextJobGiveUp(c, s, programs)
    ELSE NextJobLaunch(c.w, s, c.ps, programs)

\* Shell.nextJob
NextJob(W, s) ==
    IF W.halt # "" THEN W
    ELSE IF W.procs[s].jobRunning \/ Len(W.procs[s].jobs) = 0 THEN W
    ELSE NextJobRun(CreateAll([W EXCEPT !.procs[s].jobs = Tail(@)], s,
                              Head(W.procs[s].jobs), <<>>),
                    s, Head(W.procs[s].jobs))

\* Shell.executeCommand
RECURSIVE QueueAll(_, _, _)
QueueAll(W, s, lines) ==
    IF lines = <<>> THEN W
    ELSE QueueAll(queueJob(W, s, lines[1]), s, Tail(lines))

ExecuteCommand(W, s, content) ==
    IF W.halt # "" THEN W
    ELSE nextJob(QueueAll(W, s, SplitOn(content, {"\n", ";"})), s)

\* `prog === prog.job[prog.job.length - 1]`
isLastStage(W, prog) ==
    prog = W.procs[prog].job[Len(W.procs[prog].job)]

\* Shell.onReturn, lines 737-738: the last stage's code becomes `?`
ShellReturnCode(W, s, prog, code) ==
    Bind(IF isLastStage(W, prog) THEN setReturnCode(W, s, code) ELSE W, LAMBDA W0 :
       Note(W0, Ev("retcode", s, prog, "", isLastStage(W, prog), code,
                   MapGet(W.procs[s].variables, <<"?">>)
                       \o MapGet(W0.procs[s].variables, <<"?">>))))

\* Shell.onReturn, when the job has returned and the queue is empty and the
\* shell takes more input: repaint, and load the history once
ShellIdle(W2, s) ==
    Bind(UpdateInput(W2, W2.procs[s].stdin), LAMBDA W3 :
        Bind(MapGet(W3.procs[s].variables, <<"HIST_FILE">>), LAMBDA histFile :
       IF W3.halt # "" \/ W3.procs[s].loaded THEN W3
       ELSE IF Falsy(histFile)
       THEN [W3 EXCEPT !.procs[s].loaded = TRUE]
       ELSE Then([W3 EXCEPT !.procs[s].loaded = TRUE], "histRead",
                 s, AsyncRead(W3, histFile))))

\* Shell.onReturn, from `this.jobRunning = false` on
ShellJobDone(W2, s) ==
    IF Len(W2.procs[s].jobs) # 0 THEN nextJob(W2, s)
    ELSE IF W2.procs[W2.procs[s].stdin].state # TERMINATED
            /\ Falsy(W2.procs[s].script)
    THEN ShellIdle(W2, s)
    ELSE exit(W2, s, W2.procs[s].exitCode)

\* Shell.onReturn
ShellOnReturn(W, s, prog, code) ==
    Bind(ShellReturnCode(W, s, prog, code), LAMBDA W1 :
       IF ~jobReturned(W1, prog) THEN W1
       ELSE ShellJobDone(
                Note([W1 EXCEPT !.procs[s].jobRunning = FALSE],
                     Ev("jobDone", s, prog, "",
                        W1.procs[s].prompt = PromptErr,
                        W1.procs[W1.procs[prog].job[Len(W1.procs[prog].job)]].gCode,
                        MapGet(W1.procs[s].variables, <<"?">>))), s))

\* Term.onReturn
TermOnReturn(W, t, prog, code) ==
    Bind(writeText(W, t, <<"[returned ">> \o NumStr(code) \o <<"]">>), LAMBDA W1 :
       IF W1.halt # "" THEN W1 ELSE [W1 EXCEPT !.procs[t].inputEnabled = FALSE])

\* the onReturn of par's class
OnReturnOf(W0, par, prog, code) ==
    CASE W0.procs[par].kind = "Term" -> TermOnReturn(W0, par, prog, code)
      [] W0.procs[par].kind = "Shell" -> ShellOnReturn(W0, par, prog, code)
      [] OTHER -> W0

OnReturn(W, par, prog, code) ==
    IF W.halt # "" THEN W
    ELSE OnReturnOf([Note(W, Ev("onReturn", par, prog, W.procs[par].state,
                                TRUE, code, <<>>))
                        EXCEPT !.procs[prog].gReturn = @ + 1],
                    par, prog, code)

\* the body a call runs
Call(W, m, p, a, b) ==
    CASE m = "execute" -> Execute(W, p, a)
      [] m = "eof" -> Eof(W, p)
      [] m = "interrupt" -> Interrupt(W, p)
      [] m = "exit" -> Exit(W, p, a)
      [] m = "write" -> Write(W, p, a)
      [] m = "onExecute" -> OnExecute(W, p)
      [] m = "onWrite" -> OnWrite(W, p, a)
      [] m = "onEOF" -> OnEOF(W, p)
      [] m = "onInterrupt" -> OnInterrupt(W, p)
      [] m = "onReturn" -> OnReturn(W, p, a, b)
      [] m = "executeCommand" -> ExecuteCommand(W, p, a)
      [] m = "nextJob" -> NextJob(W, p)

\* ------------------------------------------------------- promise reactions
\* the callbacks passed to then(), by the place that queued them
RunReaction(W, t) ==
    Bind(t.p, LAMBDA p :
       CASE t.k = "shScript" ->
              IF t.ok
              THEN executeCommand([W EXCEPT !.procs[p].inputEnabled = TRUE],
                                  p, t.val)
              ELSE exit(writeText(W, W.procs[p].stderr, <<"sh: ">> \o t.val),
                        p, 127)
         [] t.k = "shProfile" ->
              IF t.ok
              THEN executeCommand([W EXCEPT !.procs[p].inputEnabled = TRUE],
                                  p, t.val)
              ELSE Bind(writeText(W, W.procs[p].stdout,
                                       <<"Welcome to Term v0.4">>), LAMBDA W1 :
                      IF W1.halt # "" THEN W1
                      ELSE UpdateInput([W1 EXCEPT
                                          !.procs[p].inputEnabled = TRUE,
                                          !.procs[p].loaded = TRUE],
                                       W1.procs[p].stdin))
         [] t.k = "histRead" ->
              IF t.ok /\ t.val # <<>>
              THEN [W EXCEPT
                      !.procs[p].historyPromise = "null",
                      !.procs[p].gHistLoaded = TRUE,
                      !.procs[p].history = SplitOn(t.val, {"\n"}) \o @,
                      !.procs[p].historyIndex =
                          Len(SplitOn(t.val, {"\n"})) + Len(W.procs[p].history)]
              ELSE [W EXCEPT !.procs[p].historyPromise = "null",
                             !.procs[p].gHistLoaded = TRUE]
         [] t.k = "teeWrite" -> [W EXCEPT !.procs[p].promise = "null"]
         [] t.k = "teeAppend" ->
              appendNext([W EXCEPT !.procs[p].promise = "null"], p)
         [] t.k = "histWrite" -> [W EXCEPT !.procs[p].historyPromise = "null"]
\* Promise.all settled: its own reaction is queued behind the others
         [] t.k = "catAll" -> Then(W, "catThen", p, [ok |-> t.ok, val |-> t.val])
         [] t.k = "catThen" ->
              IF t.ok
              THEN LET WriteEach[i \in 0..Len(t.val)] ==
                           IF i = 0 THEN W
                           ELSE writeText(WriteEach[i - 1],
                                          WriteEach[i - 1].procs[p].stdout,
                                          t.val[i])
                   IN exit(WriteEach[Len(t.val)], p, 0)
              ELSE exit(writeText(W, W.procs[p].stderr, <<"cat: ">> \o t.val),
                        p, 1)
         [] t.k = "viRead" -> EditorLoad(W, p, t.val)
         [] t.k = "viSave" -> EditorSaved(W, p)
         [] t.k = "mvThen" ->
              IF t.ok THEN exit(W, p, 0)
              ELSE exit(writeText(W, W.procs[p].stderr, <<"mv: ">> \o t.val),
                        p, 1))

\* ------------------------------------------------------ Term: key handlers
\* Term.writeHistory
writeHistory(W, t, prompt, input) ==
    writeRaw(W, t, span(prompt, "prompt") \o span(escapeHTML(input), "input"))

\* Term.clearInput
clearInput(W, t) ==
    IF W.halt # "" THEN W
    ELSE Bind(W.procs[t].stdout, LAMBDA prog :
            [W EXCEPT !.tty.inputContent = <<>>,
                      !.tty.inputNewest = <<>>,
                      !.tty.inputCursor = 0,
                      !.procs[prog].historyIndex = Len(W.procs[prog].history)])

Stars(n) == [i \in 1..n |-> "*"]

\* the tail of the keypress listener
KeypressTail(W, t, prog) ==
    IF W.halt # "" THEN W
    ELSE UpdateInput([W EXCEPT !.procs[prog].historyIndex =
                         Len(W.procs[prog].history)], t)

\* `idx = history.indexOf(content); if (idx !== -1) history.splice(idx, 1);
\* history.push(content)`
HistoryAddMut(history, content) == Append(history, content)

HistoryAdd(history, content) ==
    IF \E i \in 1..Len(history) : history[i] = content
    THEN Bind(CHOOSE i \in 1..Len(history) :
                 /\ history[i] = content
                 /\ \A j \in 1..(i - 1) : history[j] # content, LAMBDA idx :
            SubSeq(history, 1, idx - 1)
                \o SubSeq(history, idx + 1, Len(history)) \o <<content>>)
    ELSE Append(history, content)

\* `!prog.password && content.trim()`
canRememberMut(W, prog, content) == Trim(content) # <<>>

canRemember(W, prog, content) ==
    ~W.procs[prog].password /\ Trim(content) # <<>>

\* observation: Enter has updated the history of prog and is about to
\* deliver the line; x = <<the line, the history before, the history now>>
NoteEntered(W2, W1, prog, content) ==
    IF W2.halt # "" THEN W2
    ELSE Note(W2, Ev("entered", prog, NoProc, W2.procs[prog].state,
                     W2.procs[prog].password, 0,
                     <<content, W1.procs[prog].history,
                       W2.procs[prog].history>>))

\* keypress listener, Enter
OnEnter(W0, t) ==
    Bind(W0.procs[t].stdout, LAMBDA prog :
        Bind(Note(W0, Ev("key", t, prog, "enter", FALSE, 0, W0.procs[prog].job)), LAMBDA W :
        Bind(W.tty.inputContent, LAMBDA content :
        Bind(IF W.procs[prog].echo
              THEN writeHistory(W, t, W.procs[prog].prompt,
                                IF W.procs[prog].password
                                THEN Stars(Len(content)) ELSE content)
              ELSE W, LAMBDA W1 :
        Bind(NoteEntered(IF W1.halt = "" /\ canRemember(W1, prog, content)
                         THEN [W1 EXCEPT !.procs[prog].history =
                                  HistoryAdd(@, content)]
                         ELSE W1, W1, prog, content), LAMBDA W2 :
        Bind(writeText(W2, prog, W2.tty.inputContent), LAMBDA W3 :
       KeypressTail(clearInput(W3, t), t, prog)))))))

\* keypress listener, any other character
OnChar(W, t, ch) ==
    Bind(W.procs[t].stdout, LAMBDA prog :
        Bind(W.tty.inputContent, LAMBDA c :
        Bind(W.tty.inputCursor, LAMBDA k :
        Bind(SubSeq(c, 1, k) \o <<ch>> \o SubSeq(c, k + 1, Len(c)), LAMBDA new :
       KeypressTail([W EXCEPT !.tty.inputContent = new,
                              !.tty.inputNewest = new,
                              !.tty.inputCursor = k + 1], t, prog)))))

\* `for (let p of prog.job) p.interrupt()`
RECURSIVE InterruptAll(_, _, _)
InterruptAll(W, job, i) ==
    IF W.halt # "" \/ i > Len(job) THEN W
    ELSE InterruptAll(interrupt(W, job[i]), job, i + 1)

\* keydown listener, Ctrl-C
OnCtrlC(W0, t) ==
    Bind(W0.procs[t].stdout, LAMBDA prog :
        Bind(Note(W0, Ev("key", t, prog, "ctrlC", FALSE, 0, W0.procs[prog].job)), LAMBDA W :
        Bind(InterruptAll(clearInput(W, t), W.procs[prog].job, 1), LAMBDA W1 :
       UpdateInput(W1, t))))

\* keydown listener, Ctrl-D
OnCtrlDMut(W0, t) ==
    UpdateInput(eof(Note(W0, Ev("key", t, W0.procs[t].stdout, "ctrlD", FALSE,
                                0, W0.procs[W0.procs[t].stdout].job)),
                    W0.procs[t].stdout), t)

OnCtrlD(W0, t) ==
    Bind(W0.procs[t].stdout, LAMBDA prog :
        Bind(Note(W0, Ev("key", t, prog, "ctrlD", FALSE, 0, W0.procs[prog].job)), LAMBDA W :
       IF ~W.procs[prog].inputEnabled \/ W.tty.inputContent # <<>>
       THEN UpdateInput(W, t)
       ELSE Bind(IF W.procs[prog].echo \/ W.procs[prog].exitInput # <<>>
                      THEN writeHistory(W, t, W.procs[prog].prompt,
                                        W.procs[prog].exitInput)
                      ELSE W, LAMBDA W1 :
               UpdateInput(eof(W1, prog), t))))

\* `history[i]` of a JavaScript array: undefined outside the array
HistoryAt(history, i) ==
    IF i \in 0..(Len(history) - 1) THEN history[i + 1] ELSE Undef

\* the line shown at a history position: `inputContent = ...;
\* inputCursor = inputContent.length`, which throws on undefined
ShowLine(W, t, line) ==
    IF line = Undef
    THEN [W EXCEPT !.tty.inputContent = Undef, !.halt = "TypeError"]
    ELSE UpdateInput([W EXCEPT !.tty.inputContent = line,
                               !.tty.inputCursor = Len(line)], t)

\* keydown listener, ArrowLeft
OnArrowLeft(W, t) ==
    IF W.tty.inputCursor > 0
    THEN UpdateInput([W EXCEPT !.tty.inputCursor = @ - 1], t)
    ELSE W

\* keydown listener, ArrowRight
OnArrowRightMut(W, t) ==
    UpdateInput([W EXCEPT !.tty.inputCursor = @ + 1], t)

OnArrowRight(W, t) ==
    IF W.tty.inputCursor < Len(W.tty.inputContent)
    THEN UpdateInput([W EXCEPT !.tty.inputCursor = @ + 1], t)
    ELSE W

\* keydown listener, ArrowUp
OnArrowUp(W, t, prog) ==
    IF W.procs[prog].historyIndex > 0
    THEN ShowLine([W EXCEPT !.procs[prog].historyIndex = @ - 1], t,
                  HistoryAt(W.procs[prog].history,
                            W.procs[prog].historyIndex - 1))
    ELSE W

\* keydown listener, ArrowDown
OnArrowDown(W, t, prog) ==
    IF W.procs[prog].historyIndex < Len(W.procs[prog].history)
    THEN ShowLine([W EXCEPT !.procs[prog].historyIndex = @ + 1], t,
                  IF W.procs[prog].historyIndex + 1 = Len(W.procs[prog].history)
                  THEN W.tty.inputNewest
                  ELSE HistoryAt(W.procs[prog].history,
                                 W.procs[prog].historyIndex + 1))
    ELSE W

\* keydown listener, Backspace
OnBackspace(W, t) ==
    IF W.tty.inputCursor > 0
    THEN Bind(SubSeq(W.tty.inputContent, 1, W.tty.inputCursor - 1)
                \o SubSeq(W.tty.inputContent, W.tty.inputCursor + 1,
                          Len(W.tty.inputContent)), LAMBDA new :
            UpdateInput([W EXCEPT !.tty.inputContent = new,
                                  !.tty.inputNewest = new,
                                  !.tty.inputCursor = @ - 1], t))
    ELSE W

\* keydown listener, Delete
OnDelete(W, t) ==
    IF W.tty.inputCursor < Len(W.tty.inputContent)
    THEN Bind(SubSeq(W.tty.inputContent, 1, W.tty.inputCursor)
                \o SubSeq(W.tty.inputContent, W.tty.inputCursor + 2,
                          Len(W.tty.inputContent)), LAMBDA new :
            UpdateInput([W EXCEPT !.tty.inputContent = new,
                                  !.tty.inputNewest = new], t))
    ELSE W

EditKeys ==
    {"ArrowLeft", "ArrowRight", "ArrowUp", "ArrowDown", "Backspace",
     "Delete", "Tab", "CtrlU"}

\* keydown listener, the keys that edit the line; every one is observed
OnKeydown(W0, t, key) ==
    Bind(W0.procs[t].stdout, LAMBDA prog :
        Bind(Note(W0, Ev("key", t, prog, key, FALSE, 0, W0.tty)), LAMBDA W :
       IF key = "CtrlU"
       THEN UpdateInput(IF W.procs[prog].inputEnabled
                        THEN clearInput(W, t) ELSE W, t)
       ELSE IF ~W.procs[prog].inputEnabled THEN W
       ELSE CASE key = "ArrowLeft" -> OnArrowLeft(W, t)
              [] key = "ArrowRight" -> OnArrowRight(W, t)
              [] key = "ArrowUp" -> OnArrowUp(W, t, prog)
              [] key = "ArrowDown" -> OnArrowDown(W, t, prog)
              [] key = "Backspace" -> OnBackspace(W, t)
              [] key = "Delete" -> OnDelete(W, t)
              [] OTHER -> W))

\* ----------------------------------------------------------------- inputs
\* command lines the user types (one lexeme per key event)
Lines ==
    { <<"echo", "|", "sleep", " ", "1">>,
      <<"cat", "|", "head", " ", "1">>,
      <<"cat", "|", "cat", ";", "sleep", " ", "1", ";", "sleep", " ", "1">>,
      <<"cat", "|", "cat", ";", "sleep", " ", "1", "|", "echo", ";", "nope">>,
      <<"nope", ";", "sleep", " ", "1">>,
      <<"cat", "|", "sh">>,
      <<"exit", " ", "3">>,
      <<"sh", " ", "f">>,
      <<"sh", " ", "g">>,
      <<"vi", " ", "f">> }

\* command lines of a session that works inside a nested shell
NestedLines ==
    { <<"cat", "|">>,
      <<"cat", "|", "sh">>,
      <<"sh", " ", "h">>,
      <<"sleep", " ", "1", ";", "sleep", " ", "1">>,
      <<"sleep", " ", "1", ";", "set", " ", "a", " ", "b">>,
      <<"exit">>,
      <<"exit", " ", "3">>,
      <<"exit", " ", "x">> }

\* command lines of a session that fills the shell's history
HistoryLines ==
    { <<"set", " ", "a">>,
      <<"set", " ", "b">>,
      <<"sh", "|", "cat">>,
      <<"js", "|", "tail", " ", "1">>,
      <<"this.password=true">>,
      <<"1">> }

\* localStorage of a user who has configured the history (a .profile that
\* sets HIST_FILE, with or without HIST_SIZE, and a history file of zero to
\* three lines), or of one who has configured nothing
HistoryFiles ==
    {EmptyMap} \cup
    { (<<".profile">> :> prof) @@ hist :
        prof \in { <<"set", " ", "HIST_FILE", " ", "hf">>,
                   <<"set", " ", "HIST_FILE", " ", "hf", ";",
                     "set", " ", "HIST_SIZE", " ", "2">> },
        hist \in { EmptyMap,
                   <<"hf">> :> <<"x">>,
                   <<"hf">> :> <<"x", "\n", "y">>,
                   <<"hf">> :> <<"x", "\n", "y", "\n", "z">> } }

IsPrefix(s, l) == Len(s) <= Len(l) /\ SubSeq(l, 1, Len(s)) = s

\* contents of localStorage when the page loads
Files ==
    { (<<"f">> :> <<"echo", ";", "sleep", " ", "1">>) @@ (<<"g">> :> <<"nope">>)
        @@ (<<"h">> :> <<"sleep", " ", "1">>) }

Term == 1 \* the global `term`

\* `term = new Term(); term.execute([Shell])`
Boot(files) ==
    Bind([procs |-> <<>>,
               tty |-> [inputContent |-> <<>>, inputNewest |-> <<>>,
                        inputCursor |-> 0, promptElement |-> <<>>,
                        promptOwner |-> NoProc, output |-> <<>>],
               storage |-> files, micro |-> <<>>, timers |-> {},
               log |-> <<>>, ret |-> NoRet, wret |-> FALSE, newp |-> NoProc,
               halt |-> ""], LAMBDA W0 :
        Bind(New(W0, [Program(W0, NoProc, "Term") EXCEPT
                          !.inputEnabled = TRUE, !.tty = TRUE,
                          !.stdin = 1, !.stdout = 1]), LAMBDA W1 :
        Bind(NewTermError(W1, 1), LAMBDA W2 :
        Bind(execute([W2 EXCEPT !.procs[1].stderr = W2.newp], W2.newp, <<>>), LAMBDA W3 :
       execute(W3, Term, << <<"Shell">> >>)))))

\* a handler's world becomes the next state; a handler that would construct
\* more than MaxProcs processes or print more than MaxOut payloads is not run
Commit(W) ==
    /\ W.halt \in {"", "TypeError"}
    /\ procs' = W.procs
    /\ tty' = W.tty
    /\ storage' = W.storage
    /\ micro' = W.micro
    /\ timers' = W.timers
    /\ log' = W.log

\* the page has loaded with one of the given contents of localStorage
Loaded(fileSets) ==
    \E files \in fileSets :
        Bind(Boot(files), LAMBDA W :
           /\ procs = W.procs
           /\ tty = W.tty
           /\ storage = W.storage
           /\ micro = W.micro
           /\ timers = W.timers
           /\ log = W.log)

Init == Loaded(Files)

InitHistory == Loaded(HistoryFiles)

Foreground == procs[Term].stdout

\* events are dispatched only when no promise reaction is pending
Idle == micro = <<>>

\* ---------------------------------------------------------------- actions
\* keypress listener: the next lexeme of one of the lines is typed
TypeChar(lines) ==
    /\ Idle
    /\ procs[Foreground].inputEnabled
    /\ \E l \in lines : \E i \in 1..Len(l) :
          /\ tty.inputCursor = Len(tty.inputContent)
          /\ IsPrefix(Append(tty.inputContent, l[i]), l)
          /\ Commit(OnChar(World, Term, l[i]))

\* keydown listener, Enter on a complete line or on an empty input
PressEnter(lines) ==
    /\ Idle
    /\ procs[Foreground].inputEnabled
    /\ tty.inputContent \in lines \cup {<<>>}
    /\ Commit(OnEnter(World, Term))

KeyChar == TypeChar(Lines)

KeyEnter == PressEnter(Lines)

KeyCharNested == TypeChar(NestedLines)

KeyEnterNested == PressEnter(NestedLines)

KeyCtrlC ==
    /\ Idle
    /\ ~procs[Foreground].rawInput
    /\ Commit(OnCtrlC(World, Term))

KeyCtrlD ==
    /\ Idle
    /\ ~procs[Foreground].rawInput
    /\ Commit(OnCtrlD(World, Term))

\* keydown listener while the foreground takes raw input
KeyRaw ==
    /\ Idle
    /\ procs[Foreground].rawInput
    /\ \E key \in {"q", "c"} :
          Commit(EditorOnInput(World, Foreground, key))

\* the setTimeout callback of Async.timeout resolves; Sleep's reaction exits
TimerFire ==
    /\ Idle
    /\ \E p \in timers :
          Commit(exit([World EXCEPT !.timers = @ \ {p}], p, 0))

Reaction ==
    /\ micro # <<>>
    /\ Commit(RunReaction([World EXCEPT !.micro = Tail(@)], Head(micro)))

Next ==
    \/ KeyChar
    \/ KeyEnter
    \/ KeyCtrlC
    \/ KeyCtrlD
    \/ KeyRaw
    \/ TimerFire
    \/ Reaction

Spec == Init /\ [][Next]_vars

\* the same terminal, the user typing the lines of the nested-shell session
NextNested ==
    \/ KeyCharNested
    \/ KeyEnterNested
    \/ KeyCtrlC
    \/ KeyCtrlD
    \/ TimerFire
    \/ Reaction

SpecNested == Init /\ [][NextNested]_vars

KeyCharHistory == TypeChar(HistoryLines)

KeyEnterHistory == PressEnter(HistoryLines)

\* the same terminal with a configured history, the user entering lines
NextHistory ==
    \/ KeyCharHistory
    \/ KeyEnterHistory
    \/ Reaction

SpecHistory == InitHistory /\ [][NextHistory]_vars

\* command lines of a session that runs the filters, fed by `cat` of a file
\* or by the lines typed at the terminal; grep's pattern `m` is a lexeme
\* whose text occurs inside no other lexeme of these lines and files
FilterLines ==
    { <<"cat", " ", "m", " ", "m", "|", "head", " ", "2">>,
      <<"cat", " ", "m", " ", "m", "|", "tail", " ", "2">>,
      <<"cat", " ", "m", "|", "grep", " ", "m">>,
      <<"head", " ", "2", "|", "tail", " ", "1">>,
      <<"grep", " ", "m">>,
      <<"echo", " ", "m", "|", "tee", " ", "t">>,
      <<"tee", " ", "t">> }

\* localStorage holding a file `m` of one, two or three lines
FilterFiles ==
    { <<"m">> :> c :
        c \in { <<"b">>, <<"m", "\n", "b">>, <<"b", "\n", "m", "\n", "m">> } }

InitFilter == Loaded(FilterFiles)

KeyCharFilter == TypeChar(FilterLines)

KeyEnterFilter == PressEnter(FilterLines)

\* the same terminal, the user running filters over the file and the input
NextFilter ==
    \/ KeyCharFilter
    \/ KeyEnterFilter
    \/ KeyCtrlD
    \/ Reaction

SpecFilter == InitFilter /\ [][NextFilter]_vars

\* localStorage with a profile that names the history file, and the file
EditFiles ==
    { (<<".profile">> :> <<"set", " ", "HIST_FILE", " ", "hf">>)
        @@ (<<"hf">> :> <<"x", "\n", "y">>) }

InitEdit == Loaded(EditFiles)

\* lexemes typed at any position of the line, which stays short
EditChars == {"cat"}

MaxInput == 2

KeyCharEdit ==
    /\ Idle
    /\ procs[Foreground].inputEnabled
    /\ tty.inputContent # Undef
    /\ Len(tty.inputContent) < MaxInput
    /\ \E ch \in EditChars : Commit(OnChar(World, Term, ch))

\* the lines the user enters, at the shell or as input of `cat`
EditLines == { <<"cat">>, <<"x">> }

KeyEnterEdit == PressEnter(EditLines)

KeyEdit ==
    /\ Idle
    /\ ~procs[Foreground].rawInput
    /\ \E key \in EditKeys : Commit(OnKeydown(World, Term, key))

\* the same terminal with a configured history, the user editing the line
NextEdit ==
    \/ KeyCharEdit
    \/ KeyEnterEdit
    \/ KeyEdit
    \/ KeyCtrlC
    \/ KeyCtrlD
    \/ Reaction

SpecEdit == InitEdit /\ [][NextEdit]_vars

\* localStorage with a profile that starts the editor on the file `v`, which
\* is empty or has two lines
ViFiles ==
    { (<<".profile">> :> <<"vi", " ", "v">>) @@ (<<"v">> :> c) :
        c \in { <<>>, <<"x", " ", "\n", ";">> } }

InitVi == Loaded(ViFiles)

\* the keys the user presses in insert mode and in normal mode
InsertKeys == {"Enter", "Escape", "Backspace", "Tab", "x"}
NormalKeys ==
    {"a", "i", "o", "j", "k", "l", "h", "w", "b", "$", "^", "q", "z", "c"}

\* the text the user edits stays small
MaxLines == 2
MaxLine == 2
EdSmall(W) ==
    \A p \in 1..Len(W.procs) :
        /\ Len(W.procs[p].buffer) <= MaxLines
        /\ \A i \in 1..Len(W.procs[p].buffer) :
              Len(W.procs[p].buffer[i]) <= MaxLine

\* keydown listener while the editor is in the foreground
KeyVi ==
    /\ Idle
    /\ procs[Foreground].rawInput
    /\ \E key \in IF procs[Foreground].mode = "i"
                  THEN InsertKeys ELSE NormalKeys :
          Bind(EditorOnInput(World, Foreground, key), LAMBDA W :
              EdSmall(W) /\ Commit(W))

\* the same terminal, the user editing the file
NextVi ==
    \/ KeyVi
    \/ Reaction

SpecVi == InitVi /\ [][NextVi]_vars

\* command lines of a session that renames files
MoveLines ==
    { <<"mv", " ", "a", " ", "b">>,
      <<"mv", " ", "b", " ", "a">>,
      <<"mv", " ", "a", " ", "a">>,
      <<"mv", " ", "n", " ", "a">>,
      <<"mv", " ", "a">> }

\* localStorage holding one or both of the files `a` and `b`
MoveFiles ==
    { <<"a">> :> <<"x">>,
      (<<"a">> :> <<"x">>) @@ (<<"b">> :> <<"y">>) }

InitMove == Loaded(MoveFiles)

KeyCharMove == TypeChar(MoveLines)

KeyEnterMove == PressEnter(MoveLines)

\* the same terminal, the user renaming files
NextMove ==
    \/ KeyCharMove
    \/ KeyEnterMove
    \/ Reaction

SpecMove == InitMove /\ [][NextMove]_vars

TypeOK ==
    /\ Len(procs) <= MaxProcs
    /\ Len(tty.output) <= MaxOut

\* ------------------------------------------------------------ properties
Procs == 1..Len(procs)
Shells == {s \in Procs : procs[s].kind = "Shell"}
JobOf(p) == procs[p].job
Running(p) == procs[p].state = RUNNING
LogIdx == 1..Len(log)

\* C1 A process's state only moves READY -> RUNNING -> TERMINATED: execute
\* takes effect at most once and exit at most once, in that order; the state
\* is READY exactly before the effective execute and TERMINATED exactly after
\* the effective exit; a call that finds the guard closed invokes no hook
\* (the parent's onReturn runs at most once per process, and only for an
\* effective exit).
LifecycleOnce ==
    \A p \in Procs :
        /\ procs[p].gExec <= 1
        /\ procs[p].gExit <= procs[p].gExec
        /\ procs[p].state = READY <=> procs[p].gExec = 0
        /\ procs[p].state = TERMINATED <=> procs[p].gExit = 1
        /\ procs[p].gReturn <= procs[p].gExit
        /\ \A i \in LogIdx :
              (log[i].ev = "exit" /\ ~log[i].flag /\ i < Len(log)) =>
                  log[i + 1].ev \notin {"onEOF", "onReturn", "updateInput"}
                  \/ log[i + 1].p # log[i].p

\* a process that has exited once and whose exit was called again
LifecycleOnceWitness ==
    \E p \in Procs :
        /\ procs[p].gExit = 1 /\ procs[p].gExitAgain
        /\ \E i \in LogIdx : log[i].ev = "exit" /\ log[i].p = p /\ ~log[i].flag

\* C2 Only one job of a shell runs at a time: no two RUNNING children of a
\* shell belong to different jobs, and nextJob never launches a job while a
\* child launched earlier is still RUNNING.
OneJobAtATime ==
    /\ \A p, q \in Procs :
          (procs[p].parent = procs[q].parent /\ procs[p].parent \in Shells
             /\ Running(p) /\ Running(q)) => JobOf(p) = JobOf(q)
    /\ \A i \in LogIdx : log[i].ev = "launch" => ~log[i].flag

\* C3 EOF is delivered at most once per process: the onEOF hook of a process
\* runs at most once, and only while the process is RUNNING.
EofOnce ==
    /\ \A p \in Procs : procs[p].gEOF <= 1
    /\ \A p \in Procs : procs[p].state = READY => procs[p].gEOF = 0
    /\ \A i \in LogIdx : log[i].ev = "onEOF" => log[i].st = RUNNING

\* a process that got its EOF and for which eof() was called again
EofOnceWitness ==
    \E p \in Procs : procs[p].gEOF = 1 /\ procs[p].gEofAgain /\ p # Term

\* C4 write(payload) invokes the target's onWrite hook if and only if the
\* target is RUNNING with inputEnabled set; a write to any other target is
\* followed by no hook call on it.
WriteIffReceiving ==
    \A i \in LogIdx :
        /\ log[i].ev = "write" =>
              ((log[i].st = RUNNING /\ log[i].flag)
                 <=> (i < Len(log) /\ log[i + 1].ev = "onWrite"
                        /\ log[i + 1].p = log[i].p))
        /\ log[i].ev = "onWrite" =>
              (i > 1 /\ log[i - 1].ev = "write" /\ log[i - 1].p = log[i].p
                 /\ log[i].st = RUNNING /\ log[i].flag)

\* one handler in which a write was delivered and another was dropped at a
\* RUNNING target whose input is disabled
WriteIffReceivingWitness ==
    /\ \E i \in LogIdx : log[i].ev = "onWrite"
    /\ \E i \in LogIdx :
          log[i].ev = "write" /\ log[i].st = RUNNING /\ ~log[i].flag

ChildrenOf(s) == {c \in Procs : procs[c].parent = s}
Jobs == {JobOf(c) : c \in {c \in Procs : procs[c].parent \in Shells}}
Live(J) == \E i \in 1..Len(J) : Running(J[i])

\* the handler that just returned was the Ctrl-C branch of the keydown
\* listener; CtrlCFg is the foreground it found, CtrlCJob that process's job
CtrlC == Len(log) > 0 /\ log[1].ev = "key" /\ log[1].st = "ctrlC"
CtrlCFg == log[1].q
CtrlCJob == {log[1].x[i] : i \in 1..Len(log[1].x)}
CtrlCCommand == CtrlC /\ procs[CtrlCFg].kind \notin {"Shell", "Term"}

\* C5 (as stated) On Ctrl-C every process of the foreground process's job is
\* TERMINATED and the foreground is back at the parent, its prompt repainted,
\* when the key handler returns, whatever the foreground process is.
CtrlCEndsJob ==
    CtrlC =>
        /\ \A m \in CtrlCJob : procs[m].state = TERMINATED
        /\ procs[CtrlCFg].parent # NoProc
        /\ Foreground = procs[CtrlCFg].parent
        /\ tty.promptElement = procs[procs[CtrlCFg].parent].prompt

\* C5 On Ctrl-C with a command (not a shell reading the terminal) in the
\* foreground, every process of that command's job is TERMINATED when the key
\* handler returns and the foreground has left the job; it is back at the
\* parent shell, with the parent's prompt repainted, whenever that shell is
\* still RUNNING with nothing queued and no child running.
CtrlCEndsCommandJob ==
    CtrlCCommand =>
        Bind(procs[CtrlCFg].parent, LAMBDA par :
           /\ \A m \in CtrlCJob : procs[m].state = TERMINATED
           /\ Foreground \notin CtrlCJob
           /\ (procs[par].state = RUNNING /\ procs[par].jobs = <<>>
                 /\ ~\E c \in ChildrenOf(par) : Running(c))
                => (Foreground = par
                      /\ tty.promptElement = procs[par].prompt))

\* Ctrl-C has just ended a pipeline of two stages and the shell that launched
\* it has the foreground and its prompt again
CtrlCEndsCommandJobWitness ==
    /\ CtrlCCommand
    /\ Cardinality(CtrlCJob) >= 2
    /\ \A m \in CtrlCJob : procs[m].state = TERMINATED
    /\ Foreground = procs[CtrlCFg].parent
    /\ tty.promptElement = procs[Foreground].prompt

\* C6 After a job has returned, the shell's `?` equals the exit code of the
\* job's last stage and the prompt is the red one iff that code is non-zero
\* (checked at the first return of each job); the exit of a stage that is not
\* the last leaves `?` as it was.
ReturnCodeOfLastStage ==
    /\ \A i \in LogIdx :
          (log[i].ev = "jobDone"
             /\ ~\E k \in 1..(i - 1) :
                   log[k].ev = "jobDone"
                     /\ JobOf(log[k].q) = JobOf(log[i].q)) =>
              /\ log[i].x = NumStr(log[i].code)
              /\ log[i].flag <=> log[i].code # 0
    /\ \A i \in LogIdx :
          log[i].ev = "retcode" =>
              IF log[i].flag THEN <<log[i].x[2]>> = NumStr(log[i].code)
              ELSE log[i].x[2] = log[i].x[1]

\* C7 Every queued job makes progress without further input: whenever
\* control is back in the event loop with a shell RUNNING and none of its
\* children running, that shell's job queue is empty.
QueueDrains ==
    \A s \in Shells :
        (Idle /\ Running(s) /\ ~\E c \in ChildrenOf(s) : Running(c))
           => procs[s].jobs = <<>>

\* C8 A shell running a script, or reading commands from a terminated
\* stdin, exits: once it has been started, its script has been read, its
\* queue has drained and none of its children is running, it is TERMINATED.
ScriptMode(s) == procs[s].script \notin {<<>>, <<"-">>}
ScriptShellExits ==
    \A s \in Shells :
        (Idle /\ procs[s].gExec = 1 /\ procs[s].jobs = <<>>
           /\ (ScriptMode(s) \/ procs[procs[s].stdin].state = TERMINATED)
           /\ ~\E c \in ChildrenOf(s) : Running(c))
           => procs[s].state = TERMINATED

\* C9 (as stated) For every job a shell launched, while any member is
\* RUNNING: each stage's stdout is the next stage and each stage's stdin the
\* previous one, the first stage reads the shell's stdin and the last writes
\* to the shell's stdout.
PipelineWired ==
    \A J \in Jobs : Live(J) =>
        Bind(procs[J[1]].parent, LAMBDA s :
           /\ \A i \in 1..(Len(J) - 1) :
                procs[J[i]].stdout = J[i + 1] /\ procs[J[i + 1]].stdin = J[i]
           /\ procs[J[1]].stdin = procs[s].stdin
           /\ procs[J[Len(J)]].stdout = procs[s].stdout)

\* C9 For every job a shell launched: each stage's stdin is the previous
\* stage, the first stage reads the shell's stdin, the last stage writes to
\* the shell's stdout, and, while any member of the job is RUNNING, a stage's
\* stdout is the next stage whenever that next stage has no RUNNING child of
\* its own.
PipelineWiredUnlessChild ==
    \A J \in Jobs :
        Bind(procs[J[1]].parent, LAMBDA s :
           /\ \A i \in 1..(Len(J) - 1) : procs[J[i + 1]].stdin = J[i]
           /\ procs[J[1]].stdin = procs[s].stdin
           /\ procs[J[Len(J)]].stdout = procs[s].stdout
           /\ \A i \in 1..(Len(J) - 1) :
                 (Live(J) /\ ~\E c \in ChildrenOf(J[i + 1]) : Running(c))
                    => procs[J[i]].stdout = J[i + 1])

\* a two-stage job is running while its second stage, a shell, runs a job of
\* its own: one child has exited, another is RUNNING, and the first stage's
\* stdout is held by that child job
PipelineWiredUnlessChildWitness ==
    \E J \in Jobs :
        /\ Len(J) >= 2 /\ Running(J[1]) /\ Running(J[2])
        /\ \E c \in ChildrenOf(J[2]) : procs[c].state = TERMINATED
        /\ \E c \in ChildrenOf(J[2]) : Running(c)
        /\ procs[J[1]].stdout # J[2]
        /\ procs[J[2]].stdin = J[1]

\* C10 Job stages are launched right-to-left: after nextJob launches a job,
\* the execute of every stage comes after the execute of the stage to its
\* right, and no write is ever issued to a process that is still READY.
RightToLeft ==
    /\ \A i \in LogIdx : log[i].ev = "launch" =>
          \A a, b \in 1..Len(log[i].x) : a < b =>
              \A k \in LogIdx :
                  (k > i /\ log[k].ev = "execute" /\ log[k].flag
                     /\ log[k].p = log[i].x[a])
                     => \E m \in (i + 1)..(k - 1) :
                           log[m].ev = "execute" /\ log[m].flag
                             /\ log[m].p = log[i].x[b]
    /\ \A i \in LogIdx : log[i].ev = "write" => log[i].st # READY

\* a two-stage job was launched and its first stage wrote to the second,
\* which was RUNNING by then
RightToLeftWitness ==
    \E i \in LogIdx :
        /\ log[i].ev = "launch" /\ Len(log[i].x) >= 2
        /\ \E k \in LogIdx :
              k > i /\ log[k].ev = "write" /\ log[k].p = log[i].x[2]
                /\ log[k].st = RUNNING
\* C11 When exit takes effect on a process, the stdout of its parent's stdin
\* (the terminal's foreground when that stdin is the terminal) is set to the
\* parent, and the prompt repainted from the parent, exactly when no member of
\* the process's job is left un-TERMINATED; otherwise that cell is as it was.
HandbackWhenJobReturned ==
    \A i \in LogIdx : log[i].ev = "handback" =>
        /\ log[i].flag <=> log[i].code = 0
        /\ log[i].flag => log[i].x[2] = procs[log[i].p].parent
        /\ ~log[i].flag => log[i].x[2] = log[i].x[1]
        /\ (log[i].flag /\ log[i].q = Term) =>
              /\ i > 1
              /\ log[i - 1].ev = "updateInput"
              /\ log[i - 1].p = Term
              /\ log[i - 1].q = procs[log[i].p].parent

\* a stage of a job exited while another member was not TERMINATED and the
\* terminal's foreground stayed; later in the same handler or another one the
\* last member exits and the foreground goes to the shell
HandbackWhenJobReturnedWitness ==
    /\ \E i \in LogIdx :
          /\ log[i].ev = "handback" /\ log[i].code > 0 /\ log[i].q = Term
          /\ log[i].x[1] # procs[log[i].p].parent
    /\ \E i \in LogIdx :
          /\ log[i].ev = "handback" /\ log[i].code = 0 /\ log[i].q = Term
          /\ log[i].x[1] # log[i].x[2]

\* the process runs Program.onInterrupt when interrupted (Sleep and a shell
\* whose stdin is not a terminal call it from their own hook)
DefaultInterrupt(p) ==
    procs[p].kind # "Shell" \/ ~procs[procs[p].stdin].tty

\* the handler that just returned made an effective exit call on p
ExitedNow(p) ==
    \E i \in LogIdx : log[i].ev = "exit" /\ log[i].p = p /\ log[i].flag

\* C12 After Ctrl-C on a foreground job, every member that was RUNNING and
\* has the default interrupt behaviour is TERMINATED with exit code 130, the
\* last stage of a pipeline included, and the `?` the shell records when the
\* job returns is 130.
CtrlCExits130 ==
    CtrlC =>
        /\ \A m \in CtrlCJob : (DefaultInterrupt(m) /\ (ExitedNow(m) \/ Running(m)))
              => procs[m].state = TERMINATED /\ procs[m].gCode = 130
        /\ \A i \in LogIdx :
              (log[i].ev = "jobDone" /\ log[i].q \in CtrlCJob
                 /\ DefaultInterrupt(log[i].q)
                 /\ \A k \in 1..(i - 1) : log[k].ev # "jobDone")
                 => log[i].x = NumStr(130)

\* C13 When exit takes effect on a process whose parent's stdin is
\* TERMINATED and which has not had EOF delivered, the process's onEOF hook
\* runs within that exit, and the exit goes on to notify the parent.
ExitFlushesEOF ==
    \A i \in LogIdx :
        (log[i].ev = "handback" /\ log[i].st = TERMINATED /\ log[i].x[3] = 0)
           => /\ \E k \in LogIdx :
                    k > i /\ log[k].ev = "onEOF" /\ log[k].p = log[i].p
              /\ procs[procs[log[i].p].parent].state = RUNNING
                    => procs[log[i].p].gReturn = 1

\* the onReturn(prog, ...) calls the handler that just returned made
ReturnsOf(prog) == {k \in LogIdx : log[k].ev = "onReturn" /\ log[k].q = prog}

\* C14 An effective exit(code) of a process with a parent leaves the process
\* out of the parent's children; when the parent is RUNNING at that point its
\* onReturn(process, code) is called exactly once, later in the same exit and
\* with the code of the exit; when the parent is not RUNNING it is not called.
ExitNotifiesParent ==
    \A i \in LogIdx : log[i].ev = "handback" =>
        Bind(log[i].p, LAMBDA p :
           /\ \A c \in 1..Len(procs[procs[p].parent].children) :
                 procs[procs[p].parent].children[c] # p
           /\ IF log[i].x[4] = RUNNING
              THEN /\ Cardinality(ReturnsOf(p)) = 1
                   /\ procs[p].gReturn = 1
                   /\ \A k \in ReturnsOf(p) :
                         /\ k > i
                         /\ log[k].p = procs[p].parent
                         /\ log[k].code = procs[p].gCode
              ELSE ReturnsOf(p) = {} /\ procs[p].gReturn = 0)

\* one handler exited a process whose parent was RUNNING, with a non-zero
\* code, and a process whose parent had already TERMINATED
ExitNotifiesParentWitness ==
    /\ \E i \in LogIdx :
          /\ log[i].ev = "handback" /\ log[i].x[4] = RUNNING
          /\ procs[log[i].p].gCode = 130
    /\ \E i \in LogIdx :
          log[i].ev = "handback" /\ log[i].x[4] = TERMINATED

\* C15 When exit takes effect on a process, no process below it (its
\* children, their children, ...) is RUNNING any more when it goes on to
\* deliver EOF to its stdout and stderr and to notify its parent, and none is
\* RUNNING when the exit call returns.
ChildrenExitFirst ==
    \A i \in LogIdx : log[i].ev \in {"reaped", "exitEnd"} => log[i].code = 0

\* a process with two RUNNING descendants (a child and a grandchild) exited;
\* when it delivered EOF downstream none was RUNNING, and none when it returned
ChildrenExitFirstWitness ==
    \E i \in LogIdx :
        /\ log[i].ev = "reaped" /\ log[i].x[1] >= 2 /\ log[i].code = 0
        /\ \E k \in LogIdx :
              k > i /\ log[k].ev = "exitEnd" /\ log[k].p = log[i].p

\* a stage that is input-enabled from its execute on and keeps Program.onEOF:
\* cat without file arguments, head with a positive count
DefaultEofStage(q) ==
    \/ procs[q].kind = "Cat" /\ Len(procs[q].args) = 0
    \/ procs[q].kind = "Head" /\ ParseInt(Arg(procs[q].args, 1)) > 0

ExecutedAfterUpstream(i) ==
    log[i].ev = "executed" /\ log[i].x[1] = TERMINATED

\* C17 (as stated) Whenever execute takes effect on a process whose stdin
\* process is already TERMINATED, the EOF hook of the process is invoked
\* after its execute hook, within the same execute.
ExecuteInvokesEOFHook ==
    \A i \in LogIdx : ExecutedAfterUpstream(i) =>
        \E k \in LogIdx :
            k > i /\ log[k].ev = "onEOF" /\ log[k].p = log[i].p

\* C17 A stdin that was TERMINATED when execute took effect is still
\* TERMINATED when the execute hook has returned; execute then calls eof() on
\* the process, so the EOF hook is the very next thing to run exactly when
\* the stdin is TERMINATED, the process is still RUNNING and its input has
\* not ended. A process that its own execute hook made exit gets no EOF hook.
ExecuteDeliversEOF ==
    \A i \in LogIdx : log[i].ev = "executed" =>
        /\ log[i].x[1] = TERMINATED => log[i].st = TERMINATED
        /\ (log[i].st = TERMINATED /\ log[i].x[2] = RUNNING /\ log[i].x[3] = 0)
             <=> (/\ i < Len(log)
                  /\ log[i + 1].ev = "onEOF"
                  /\ log[i + 1].p = log[i].p)
        /\ log[i].x[2] # RUNNING =>
              \A k \in LogIdx :
                  k > i => ~(log[k].ev = "onEOF" /\ log[k].p = log[i].p)

\* a process was executed after its stdin had terminated, was still RUNNING
\* when its execute hook returned, and had its EOF hook run next
ExecuteDeliversEOFWitness ==
    \E i \in LogIdx :
        /\ ExecutedAfterUpstream(i)
        /\ log[i].x[2] = RUNNING
        /\ i < Len(log)
        /\ log[i + 1].ev = "onEOF" /\ log[i + 1].p = log[i].p

\* the class of the process Shell.createProcess makes for a command name
KindOfCommand(cmd) ==
    CASE cmd \in {<<"echo">>, <<"set">>, <<"exit">>} -> "Caller"
      [] cmd = <<"history">> -> "Printer"
      [] cmd = <<"read">> -> "Monitor"
      [] OTHER -> BinKind(cmd)

\* what the shell does with a job that names a command that does not exist:
\* none of the processes made for the job is ever executed, the newest item
\* of the terminal's output is the error text for the (last) missing name,
\* `?` is 127 with the red prompt, and the shell is RUNNING and takes input
NotFoundReported ==
    \A i \in LogIdx : log[i].ev = "notFound" =>
        /\ \A k \in 1..Len(log[i].x[1]) :
              log[i].x[1][k] # NoProc =>
                  /\ procs[log[i].x[1][k]].state = READY
                  /\ procs[log[i].x[1][k]].gExec = 0
        /\ \E k \in 1..Len(log[i].x[2]) :
              /\ KindOfCommand(log[i].x[2][k]) = ""
              /\ \A m \in (k + 1)..Len(log[i].x[2]) :
                    KindOfCommand(log[i].x[2][m]) # ""
              /\ log[i].x[3] =
                    RawOutput(span(escapeHTML(<<"sh: command not found: ">>
                                                 \o log[i].x[2][k]), "error"))
        /\ MapGet(procs[log[i].p].variables, <<"?">>) = NumStr(127)
        /\ procs[log[i].p].prompt = PromptErr
        /\ log[i].st = RUNNING /\ log[i].flag
        /\ procs[log[i].p].state = RUNNING /\ procs[log[i].p].inputEnabled

\* the next command line written to a shell after such a job is launched at
\* once: the first job the shell launches then is the first job of that line
NextCommandLaunched ==
    \A i \in LogIdx :
        (/\ log[i].ev = "command" /\ log[i].flag
         /\ FirstJob(log[i].x) # <<>>
         /\ \A k \in 1..Len(FirstJob(log[i].x)) :
               KindOfCommand(FirstJob(log[i].x)[k]) # "")
           => \E k \in LogIdx :
                 /\ k > i
                 /\ log[k].ev = "launch" /\ log[k].p = log[i].p
                 /\ \A m \in (i + 1)..(k - 1) :
                       ~(log[m].ev = "launch" /\ log[m].p = log[i].p)
                 /\ Len(log[k].x) = Len(FirstJob(log[i].x))
                 /\ \A m \in 1..Len(log[k].x) :
                       procs[log[k].x[m]].kind
                           = KindOfCommand(FirstJob(log[i].x)[m])

\* C18 A job with a stage whose command does not exist executes none of its
\* processes, writes `sh: command not found: <name>` to stderr, sets `?` to
\* 127 with the red prompt and leaves the shell RUNNING with input enabled;
\* and the next command entered is launched normally.
CommandNotFound == NotFoundReported /\ NextCommandLaunched

\* the lines of a command text that queueJob does not skip
JobLines(content) ==
    SelectSeq(SplitOn(content, {"\n", ";"}), LAMBDA l : Trim(l) # <<>>)

\* some stage between the pipe signs of the line is blank
HasEmptyStage(line) ==
    \E k \in 1..Len(SplitOn(line, {"|"})) :
        Trim(SplitOn(line, {"|"})[k]) = <<>>

\* C19 A command line that is one job with a blank pipe stage makes the
\* shell write `sh: invalid pipe` to stderr and set the return code to 1; the
\* job is neither queued nor launched, and the shell keeps taking input.
InvalidPipeRejected ==
    \A i \in LogIdx :
        (/\ log[i].ev = "command"
         /\ Len(JobLines(log[i].x)) = 1
         /\ HasEmptyStage(JobLines(log[i].x)[1]))
           => /\ tty.output # <<>>
              /\ tty.output[Len(tty.output)] =
                    RawOutput(span(escapeHTML(<<"sh: invalid pipe">>),
                                   "error"))
              /\ MapGet(procs[log[i].p].variables, <<"?">>) = NumStr(1)
              /\ procs[log[i].p].exitCode = 1
              /\ \A k \in LogIdx :
                    (k > i /\ log[k].p = log[i].p)
                       => log[k].ev \notin {"launch", "notFound"}
              /\ procs[log[i].p].state = RUNNING
              /\ procs[log[i].p].inputEnabled

\* C20 A process is constructed with a Map object of its own whose entries
\* equal its parent's at that moment, and an assignment to the variables of
\* one process changes the variables of no other process: not those of its
\* parent, not those of the children constructed before.
EnvIsolated ==
    \A i \in LogIdx :
        /\ log[i].ev = "new" => log[i].flag /\ log[i].code = 0
        /\ log[i].ev = "assign" => log[i].code = 0

\* `set a b` ran in a shell nested in another shell: the nested shell has the
\* entry, the shell above it, constructed earlier and still RUNNING, has not
EnvIsolatedWitness ==
    \E i \in LogIdx :
        /\ log[i].ev = "assign" /\ log[i].flag /\ log[i].x = <<"a">>
        /\ procs[log[i].p].kind = "Shell"
        /\ log[i].q # NoProc
        /\ procs[log[i].q].kind = "Shell"
        /\ procs[log[i].q].state = RUNNING
        /\ MapGet(procs[log[i].p].variables, <<"a">>) = <<"b">>
        /\ <<"a">> \notin DOMAIN procs[log[i].q].variables

\* C21 A process whose timer is still pending is RUNNING: whenever a sleep
\* has become TERMINATED its timer has been cleared, so that the timer's
\* callback never runs for a TERMINATED process.
TimerAborted ==
    \A p \in timers : procs[p].state = RUNNING

\* the last k entries of a sequence
LastOf(seq, k) ==
    IF k >= Len(seq) THEN seq ELSE SubSeq(seq, Len(seq) - k + 1, Len(seq))

\* C22 Every history write stores the last min(HIST_SIZE, n) entries of the
\* n-entry history, joined by newlines, HIST_SIZE being 100 when it is unset;
\* the file named by HIST_FILE holds that text afterwards.
HistoryWriteKeepsLast ==
    \A i \in LogIdx : log[i].ev = "histWrite" =>
        /\ log[i].x[3] =
              Join(LastOf(log[i].x[1],
                          IF log[i].x[2] = Undef THEN 100
                          ELSE ParseInt(log[i].x[2])), "\n")
        /\ MapGet(storage, MapGet(procs[log[i].p].variables,
                                  <<"HIST_FILE">>)) = log[i].x[3]

\* C23 A shell starts a history write only when none of its earlier writes
\* is pending and only after the reaction to its history read has run.
OneHistoryWrite ==
    /\ \A i \in LogIdx : log[i].ev = "histWrite" =>
          log[i].code = 0 /\ log[i].flag
    /\ \A s \in Shells :
          Cardinality({i \in 1..Len(micro) :
                          micro[i].k = "histWrite" /\ micro[i].p = s}) <= 1

\* a shell that has loaded its history has started a write, which is pending
OneHistoryWriteWitness ==
    /\ \E i \in LogIdx : log[i].ev = "histWrite" /\ log[i].flag
    /\ \E i \in 1..Len(micro) : micro[i].k = "histWrite"

\* the shell the terminal started
RootShell == 3

\* the `[returned c]` items of the terminal's output
ReturnedItems(out, c) ==
    {k \in 1..Len(out) :
        out[k] = TextOutput(<<"[returned ">> \o NumStr(c) \o <<"]">>)}

\* C24 The step in which the root shell returns with code c leaves exactly
\* one `[returned c]` in the output and the terminal's input disabled; every
\* later step leaves the state of every process as it was and runs no write
\* hook of a program, no EOF hook and no exit.
SessionEnds ==
    [][/\ (procs[RootShell].state = RUNNING
             /\ procs'[RootShell].state = TERMINATED)
          => /\ Cardinality(ReturnedItems(tty'.output,
                                          procs'[RootShell].gCode)) = 1
             /\ ~procs'[Term].inputEnabled
       /\ procs[RootShell].state = TERMINATED
          => /\ Len(procs') = Len(procs)
             /\ \A p \in 1..Len(procs) : procs'[p].state = procs[p].state
             /\ \A i \in 1..Len(log') :
                   /\ log'[i].ev \notin {"onEOF", "onInterrupt"}
                   /\ log'[i].ev = "exit" => ~log'[i].flag
                   /\ log'[i].ev = "onWrite" =>
                         procs[log'[i].p].kind \in {"Term", "TermError"}]_vars
\* the items of a sequence of payloads, concatenated
RECURSIVE Flatten(_)
Flatten(seqs) == IF seqs = <<>> THEN <<>> ELSE Head(seqs) \o Flatten(Tail(seqs))

FirstOf(seq, k) == IF k >= Len(seq) THEN seq ELSE SubSeq(seq, 1, k)

ItemsOut(p) == Flatten([k \in 1..Len(procs[p].gOut) |-> procs[p].gOut[k].items])

Filters(kind) ==
    {p \in Procs : procs[p].kind = kind /\ procs[p].gExec > 0
                     /\ ParseInt(Arg(procs[p].args, 1)) # NaN
                     /\ ParseInt(Arg(procs[p].args, 1)) > 0}

\* C25: what `head N` (N > 0) has written to its stdout is, in order, the
\* first min(N, total) items of all the payloads written to it, never more
\* than N items; once the N-th item is forwarded the process has exited
\* with code 0
HeadForwardsFirstN ==
    \A p \in Filters("Head") :
        /\ ItemsOut(p) = FirstOf(Flatten(procs[p].gIn),
                                 ParseInt(Arg(procs[p].args, 1)))
        /\ Len(ItemsOut(p)) <= ParseInt(Arg(procs[p].args, 1))
        /\ Len(ItemsOut(p)) = ParseInt(Arg(procs[p].args, 1))
              => procs[p].state = TERMINATED /\ procs[p].gCode = 0

\* a `head 2` that took its second item in a later write than its first
\* and has exited
HeadForwardsFirstNWitness ==
    \E p \in Filters("Head") :
        /\ Len(procs[p].gIn) >= 2
        /\ Len(ItemsOut(p)) = 2
        /\ procs[p].state = TERMINATED

\* C26: `tail N` (N > 0) writes nothing to its stdout before its onEOF
\* runs; when it has run, the process has written exactly one payload, an
\* Array of the last min(N, total) items of all the payloads written to it
\* in arrival order, and has exited with code 0
TailEmitsLastN ==
    \A p \in Filters("Tail") :
        /\ procs[p].gEOF = 0 => procs[p].gOut = <<>>
        /\ procs[p].gEOF > 0 =>
              /\ Len(procs[p].gOut) = 1
              /\ procs[p].gOut[1].eof
              /\ procs[p].gOut[1].at = Len(procs[p].gIn)
              /\ procs[p].gOut[1].items =
                    LastOf(Flatten(procs[p].gIn),
                           ParseInt(Arg(procs[p].args, 1)))
              /\ procs[p].state = TERMINATED /\ procs[p].gCode = 0

\* a `tail 2` that received more than two items over two writes and has
\* emitted the last two on EOF
TailEmitsLastNWitness ==
    \E p \in Filters("Tail") :
        /\ Len(procs[p].gIn) >= 2
        /\ Len(Flatten(procs[p].gIn)) > 2
        /\ procs[p].gEOF > 0
        /\ Len(procs[p].gOut) = 1 /\ Len(procs[p].gOut[1].items) = 2

Greps == {p \in Procs : procs[p].kind = "Grep" /\ procs[p].gExec > 0
                         /\ Arg(procs[p].args, 1) # Undef}

\* the items among `items` whose str() holds the pattern, in order
Matching(items, pattern) ==
    SelectSeq(items, LAMBDA e :
        \E i \in 1..(Len(OutStr(e)) + 1) : \E j \in (i - 1)..Len(OutStr(e)) :
            SubSeq(OutStr(e), i, j) = pattern)

\* the payloads p wrote while it had received k payloads
OutAt(p, k) == SelectSeq(procs[p].gOut, LAMBDA o : o.at = k)

\* C27: for each payload written to `grep`, grep has written to its stdout
\* exactly the items of that payload whose str() matches the pattern, as
\* one payload, and nothing when none matches; a grep whose onEOF has run
\* has exited with code 0 if some item it received matched, else with 1
GrepForwardsMatches ==
    \A p \in Greps :
        /\ \A k \in 1..Len(procs[p].gIn) :
              IF Matching(procs[p].gIn[k], procs[p].args[1]) = <<>>
              THEN OutAt(p, k) = <<>>
              ELSE /\ Len(OutAt(p, k)) = 1
                   /\ OutAt(p, k)[1].items =
                         Matching(procs[p].gIn[k], procs[p].args[1])
        /\ Len(OutAt(p, 0)) = 0
        /\ procs[p].gEOF > 0 =>
              /\ procs[p].state = TERMINATED
              /\ procs[p].gCode =
                    IF Matching(Flatten(procs[p].gIn), procs[p].args[1]) # <<>>
                    THEN 0 ELSE 1

\* a grep that was handed a payload with a matching and a non-matching
\* item, forwarded the match and exited on EOF
GrepForwardsMatchesWitness ==
    \E p \in Greps :
        /\ procs[p].gEOF > 0
        /\ \E k \in 1..Len(procs[p].gIn) :
              /\ Len(OutAt(p, k)) = 1
              /\ Len(OutAt(p, k)[1].items) < Len(procs[p].gIn[k])

\* the strings of the state: the line being typed, the files, the texts on
\* the output pane
Strings ==
    {tty.inputContent} \cup {storage[f] : f \in DOMAIN storage}
        \cup {tty.output[k].content :
                k \in {j \in 1..Len(tty.output) : tty.output[j].type = "text"}}

\* the sequences of outputs of the state: the item lists the filters
\* received and wrote, the members of the Arrays on the output pane
Arrays ==
    UNION {{procs[p].gIn[k] : k \in 1..Len(procs[p].gIn)} : p \in Procs}
        \cup UNION {{procs[p].gOut[k].items : k \in 1..Len(procs[p].gOut)} :
                      p \in Procs}
        \cup {tty.output[k].elems :
                k \in {j \in 1..Len(tty.output) : tty.output[j].type = "array"}}

StrsOf(items) == [k \in 1..Len(items) |-> OutStr(items[k])]

\* C28: for every sequence xs of outputs, the items() of ArrayOutput(xs)
\* are xs; for every string s, the str() of TextOutput(s) is s, and the
\* str() of the items() of TextOutput(s), joined with newlines, is s
OutputRoundTrip ==
    /\ \A xs \in Arrays : OutItems(ArrayOutput(xs)) = xs
    /\ \A s \in Strings :
          /\ OutStr(TextOutput(s)) = s
          /\ Join(StrsOf(OutItems(TextOutput(s))), "\n") = s

\* a three-line file was split into its items, an Array of two members is
\* on the output pane, and the line being typed is the empty string
OutputRoundTripWitness ==
    /\ \E xs \in Arrays : Len(xs) = 3
    /\ \E k \in 1..Len(tty.output) :
          tty.output[k].type = "array" /\ Len(tty.output[k].elems) = 2
    /\ \E s \in Strings : Len(OutItems(TextOutput(s))) = 3
    /\ tty.inputContent = <<>>

\* the `exit` Callers whose execute hook the last handler ran
ExitCallers ==
    {log[i].p : i \in {k \in LogIdx : /\ log[k].ev = "execute"
                                      /\ procs[log[k].p].kind = "Caller"
                                      /\ procs[log[k].p].fn = "exit"}}

\* the code `exit [code]` asks for
CodeOf(args) ==
    IF Arg(args, 1) = Undef \/ Arg(args, 1) = <<>> THEN 0
    ELSE IF ParseInt(args[1]) = NaN THEN 2
    ELSE ParseInt(args[1])

NotNumeric(args) ==
    TextOutput(<<"sh: exit: ">> \o args[1] \o <<": numeric argument required">>)

ErrorShown(o) ==
    \E k \in 1..Len(tty.output) :
        tty.output[k] = RawOutput(span(escapeHTML(OutStr(o)), "error"))

\* C29: when the Caller of `exit [code]` has run, the shell that created it
\* is TERMINATED with the parsed code, 0 without an argument and 2 with a
\* non-numeric one, whose error message is then on the terminal; the
\* shell's parent was notified of the shell's return, with that code
ExitTerminatesShell ==
    \A c \in ExitCallers :
        /\ procs[procs[c].parent].state = TERMINATED
        /\ procs[procs[c].parent].gCode = CodeOf(procs[c].args)
        /\ ReturnsOf(procs[c].parent) # {}
        /\ \A k \in ReturnsOf(procs[c].parent) :
              /\ log[k].p = procs[procs[c].parent].parent
              /\ log[k].code = CodeOf(procs[c].args)
        /\ (Arg(procs[c].args, 1) # Undef /\ ParseInt(Arg(procs[c].args, 1)) = NaN)
              => ErrorShown(NotNumeric(procs[c].args))

\* a nested shell ran `exit x`: it returned 2 to the root shell after the
\* error message
ExitTerminatesShellWitness ==
    \E c \in ExitCallers :
        /\ procs[c].args = << <<"x">> >>
        /\ procs[c].parent # RootShell
        /\ procs[RootShell].state = RUNNING
        /\ procs[procs[c].parent].gCode = 2

\* the history after `line` is added: no earlier entry equal to it, it last
Added(before, line) == Append(SelectSeq(before, LAMBDA h : h # line), line)

\* the handler delivered nothing to the process before the event at i, and
\* delivered the line after it
DeliveredAfter(i) ==
    /\ \A k \in 1..(i - 1) : ~(log[k].ev = "write" /\ log[k].p = log[i].p)
    /\ \E k \in LogIdx :
          k > i /\ log[k].ev = "write" /\ log[k].p = log[i].p

\* C30 as stated: on Enter the line is added to the history of the
\* foreground process, earlier identical entry removed and the line last,
\* except when the process has `password` set and the line is blank; the
\* line is delivered by write after that
EnterAddsUnlessPasswordAndBlank ==
    \A i \in LogIdx : log[i].ev = "entered" =>
        /\ log[i].x[3] =
              IF log[i].flag /\ Trim(log[i].x[1]) = <<>>
              THEN log[i].x[2] ELSE Added(log[i].x[2], log[i].x[1])
        /\ DeliveredAfter(i)

\* C30: on Enter the line is added to the history of the foreground
\* process, earlier identical entry removed and the line last, except when
\* the process has `password` set or the line is blank; the line is
\* delivered by write after that
EnterAddsToHistory ==
    \A i \in LogIdx : log[i].ev = "entered" =>
        /\ log[i].x[3] =
              IF log[i].flag \/ Trim(log[i].x[1]) = <<>>
              THEN log[i].x[2] ELSE Added(log[i].x[2], log[i].x[1])
        /\ DeliveredAfter(i)

\* a line entered for the second time moved from the front of the history
\* to its end, and the shell saw it there when the line was written to it
EnterAddsToHistoryWitness ==
    \E i \in LogIdx :
        /\ log[i].ev = "entered"
        /\ Len(log[i].x[2]) >= 2
        /\ log[i].x[2][1] = log[i].x[1]
        /\ log[i].x[3] = Append(Tail(log[i].x[2]), log[i].x[1])
        /\ procs[log[i].p].history = log[i].x[3]

\* the handler that just ran was the keydown listener for Ctrl-D
CtrlDStep == Len(log') > 0 /\ log'[1].ev = "key" /\ log'[1].st = "ctrlD"

\* the EOF hook of p ran in the handler that just ran
EofDelivered(p) == \E i \in 1..Len(log') : log'[i].ev = "onEOF" /\ log'[i].p = p

\* C31: Ctrl-D runs the EOF hook of the foreground process exactly when the
\* foreground has input enabled and the input line is empty, and otherwise
\* leaves every process as it was; a shell at its prompt then exits with
\* the return code of its last job (the value of `?`)
CtrlDDeliversEOF ==
    [][CtrlDStep =>
         IF procs[Foreground].inputEnabled /\ tty.inputContent = <<>>
         THEN /\ EofDelivered(Foreground)
              /\ procs[Foreground].kind = "Shell" =>
                    /\ procs'[Foreground].state = TERMINATED
                    /\ NumStr(procs'[Foreground].gCode) =
                          MapGet(procs[Foreground].variables, <<"?">>)
         ELSE /\ procs' = procs
              /\ \A i \in 1..Len(log') : log'[i].ev # "onEOF"]_vars

\* the root shell, whose last job returned a code other than 0, has exited
\* with that code on a Ctrl-D
CtrlDDeliversEOFWitness ==
    /\ Len(log) > 0 /\ log[1].ev = "key" /\ log[1].st = "ctrlD"
    /\ procs[RootShell].state = TERMINATED
    /\ procs[RootShell].gCode # 0
    /\ procs[RootShell].gEOF = 1

\* the RUNNING members of the jobs launched by a shell that reads the terminal
RunningJobMembers ==
    {p \in Procs : /\ procs[p].state = RUNNING
                    /\ procs[p].parent \in Shells
                    /\ procs[procs[p].parent].stdin = Term}

\* q is a member of the job of p, or runs under a member of it
InJob(q, p) ==
    \E k \in 1..Len(procs[p].job) :
        \/ procs[p].job[k] = q
        \/ HasAncestor([procs |-> procs], q, procs[p].job[k])

\* C32: while a member of a job launched by a shell that reads the terminal
\* is RUNNING, the foreground process of the terminal is a member of that
\* job (or a process running under one) and not the launching shell
ForegroundIsJob ==
    \A p \in RunningJobMembers :
        InJob(Foreground, p) /\ Foreground # procs[p].parent

\* C33: the shell runs its job-completion handling (jobRunning cleared, then
\* the next job, the repaint or the exit) at most once for each launched
\* job, also when members of the job terminate inside one another's exit
JobCompletesOnce ==
    \A i, k \in LogIdx :
        (i < k /\ log[i].ev = "jobDone" /\ log[k].ev = "jobDone"
           /\ log[i].p = log[k].p)
          => JobOf(log[i].q) # JobOf(log[k].q)

\* the handler that ran was the keydown listener for Ctrl-D with p foreground
CtrlDOn(p) ==
    Len(log) > 0 /\ log[1].ev = "key" /\ log[1].st = "ctrlD" /\ log[1].q = p

\* C34: the EOF hook of a process (the terminal's own two devices aside)
\* runs only in a handler that leaves the process wired as its stdin
\* TERMINATED, or in the Ctrl-D handler while the process is foreground
EofOnlyFromUpstream ==
    \A i \in LogIdx :
        (log[i].ev = "onEOF"
           /\ procs[log[i].p].kind \notin {"Term", "TermError"})
          => \/ procs[procs[log[i].p].stdin].state = TERMINATED
             \/ CtrlDOn(log[i].p)

\* C35: the root terminal is RUNNING in every state, and no exit takes
\* effect on a process that has no parent
TermKeepsRunning ==
    /\ procs[Term].state = RUNNING
    /\ \A i \in LogIdx :
          (log[i].ev = "exit" /\ log[i].flag) => procs[log[i].p].parent # NoProc

Tees == {p \in Procs : procs[p].kind = "Tee" /\ procs[p].gExec > 0}

\* the text of the payloads, each followed by a newline
RECURSIVE Lined(_)
Lined(payloads) ==
    IF payloads = <<>> THEN <<>>
    ELSE OutStr(Head(payloads)) \o <<"\n">> \o Lined(Tail(payloads))

\* C36: once a tee has exited and no promise reaction is pending, its file
\* holds every payload the tee received, in order, each followed by a
\* newline
TeeKeepsEveryPayload ==
    \A p \in Tees :
        (procs[p].state = TERMINATED /\ micro = <<>>)
          => MapGet(storage, procs[p].file) = Lined(Flatten(procs[p].gIn))


\* the handler that just ran was the keypress listener for Enter
EnterStep == Len(log') > 0 /\ log'[1].ev = "key" /\ log'[1].st = "enter"

\* C37: an Enter while the foreground process has `password` set changes
\* the history of no process and leaves every file, the history file
\* included, as it was, whatever the line
PasswordLineNotStored ==
    [][(EnterStep /\ procs[Foreground].password) =>
         /\ \A p \in 1..Len(procs) : procs'[p].history = procs[p].history
         /\ storage' = storage]_vars

\* a non-blank line was entered while the foreground process had `password`
\* set, in a session whose shell keeps a history file
PasswordLineNotStoredWitness ==
    /\ \E i \in LogIdx :
          /\ log[i].ev = "entered" /\ log[i].flag
          /\ Trim(log[i].x[1]) # <<>>
          /\ log[i].x[3] = log[i].x[2]
    /\ MapGet(procs[RootShell].variables, <<"HIST_FILE">>) # Undef

\* C38 The terminal's line buffer is consistent after every key event: the
\* cursor lies within the line, the foreground's history index lies within
\* its history, and a foreground that stands at the end of its history
\* (also after Arrow Up and back down) is shown the in-progress line saved
\* in `newest`.
LineBufferConsistent ==
    /\ tty.inputContent # Undef
    /\ tty.inputCursor \in 0..Len(tty.inputContent)
    /\ procs[Foreground].historyIndex \in 0..Len(procs[Foreground].history)
    /\ procs[Foreground].historyIndex = Len(procs[Foreground].history) =>
          tty.inputContent = tty.inputNewest

\* Arrow Down has left a history entry and restored a line typed before
LineBufferConsistentWitness ==
    /\ Len(log) > 0
    /\ log[1].ev = "key"
    /\ log[1].st = "ArrowDown"
    /\ procs[Foreground].historyIndex = Len(procs[Foreground].history)
    /\ tty.inputContent = <<"cat", "cat">>
    /\ log[1].x.inputContent \notin {<<>>, tty.inputContent}

Editors == {p \in Procs : procs[p].kind = "Editor" /\ procs[p].buffer # <<>>}

\* C39 In an editor whose file has loaded the cursor stays inside the
\* buffer after any sequence of keys: the cursor line is a line of the
\* buffer, the column is at most the length of that line in insert mode
\* and at most max(0, length - 1) in normal mode; Escape leaves the column
\* within the normal-mode range.
EditorCursorInside ==
    \A p \in Editors :
        /\ procs[p].cursorLine \in 0..(Len(procs[p].buffer) - 1)
        /\ procs[p].cursorColumn >= 0
        /\ procs[p].mode = "i" =>
              procs[p].cursorColumn
                  <= Len(procs[p].buffer[procs[p].cursorLine + 1])
        /\ procs[p].mode = "n" =>
              \/ procs[p].cursorColumn = 0
              \/ procs[p].cursorColumn
                    <= Len(procs[p].buffer[procs[p].cursorLine + 1]) - 1

\* Escape, pressed with the cursor behind the last character of a line that
\* is not the first, has left insert mode
EditorCursorInsideWitness ==
    /\ Len(log) > 0
    /\ log[1].ev = "key"
    /\ log[1].st = "Escape"
    /\ log[1].flag
    /\ log[1].x[1] > 0
    /\ procs[log[1].p].mode = "n"
    /\ log[1].x[2] = Len(procs[log[1].p].buffer[procs[log[1].p].cursorLine + 1])
    /\ procs[log[1].p].cursorColumn = log[1].x[2] - 1
    /\ log[1].x[2] >= 2

Moves == {i \in LogIdx : log[i].ev = "move"}

\* C40 After move(path, target) resolves for an existing key path,
\* read(target) resolves with the content that path held before the move,
\* for every pair of keys; when path does not exist, move rejects and the
\* store is unchanged.
MoveThenRead ==
    \A i \in Moves :
        /\ log[i].flag <=> log[i].x[1] \in DOMAIN log[i].x[3]
        /\ log[i].flag =>
              AsyncRead([storage |-> storage], log[i].x[2])
                  = [ok |-> TRUE, val |-> log[i].x[3][log[i].x[1]]]
        /\ ~log[i].flag => storage = log[i].x[3]
====
